---- MODULE Spec2Model ----
(***************************************************************************)
(* PilotBA backend: bearer-token issuance, validation, rotation and        *)
(* revocation (middleware/auth.rs, routes/auth.rs), and the role-based     *)
(* permission resolver (services/permissions.rs).                          *)
(*                                                                         *)
(* A token string "header.payload.signature" is modelled as a record:      *)
(*   wf     the string splits into three base64url segments that parse     *)
(*   long   the string has at least 32 characters                          *)
(*   alg    the algorithm named by the header                              *)
(*   claims the JSON payload                                               *)
(*   key    the key under which the HMAC signature verifies (an ideal MAC: *)
(*          a signature made with key k verifies under k and no other key) *)
(* Keys are sequences of string parts, so that "<secret>-refresh" is       *)
(* secret \o <<"-refresh">>.                                               *)
(***************************************************************************)
EXTENDS Integers, Sequences, FiniteSets, TLC

VARIABLES
    now,        \* the wall clock, Unix seconds (chrono::Utc::now)
    ticks,      \* how often the clock has advanced (bounds the exploration)
    users,      \* table users: set of rows
    revoked,    \* table revoked_tokens: set of rows, unique on token_hash
    req,        \* the in-flight POST /api/auth/refresh requests, per worker
    issued,     \* the token pairs delivered to clients so far
    rotated,    \* history: the refresh tokens for which refresh has returned a pair
    loggedout,  \* history, kept under SpecLogout: the refresh tokens for which
                \* logout has returned success
    gate,       \* the outcome of the latest request through AuthMiddleware
    tv,         \* token-service harness: the token at hand and the last validation
    team_members,   \* table team_members: set of rows, unique on (team_id, user_id)
    files,          \* table files: set of rows, unique on id
    dashboards,     \* table dashboards: set of rows, unique on id
    perm,           \* the latest call of the PermissionService and its result
    http,       \* kept under SpecAccount: the latest exchange of login, logout
                \* or me, with the Revocation Store before and after it
    reg,        \* the in-flight POST /api/auth/register requests, per worker
    teams,      \* table teams: set of rows
    created     \* history: the ids of the teams for which create_team has
                \* returned success

permvars == <<team_members, files, dashboards, perm, teams, created>>

vars ==
    <<now, ticks, users, revoked, req, issued, rotated, loggedout, gate, tv, permvars,
      http, reg>>

----------------------------------------------------------------------------
(* Bounds *)

StartTime == 1000000
MaxTicks == 1
MaxIssued == 1
MaxRotated == 1
MaxRevoked == 1
MaxUsers == 3

----------------------------------------------------------------------------
(* Claims and tokens: middleware/auth.rs *)

AccessHours == 1
RefreshHours == 7 * 24
SecondsPerHour == 3600
DefaultLeeway == 60

NoClaims == [sub |-> "", email |-> "", name |-> "", exp |-> 0, iat |-> 0]

NoToken == [wf |-> FALSE, long |-> FALSE, alg |-> "", claims |-> NoClaims, key |-> <<>>]

\* Claims::new(user_id, email, name, exp_hours), with the clock reading `at`
ClaimsNew(user_id, email, name, exp_hours, at) ==
    [sub |-> user_id, email |-> email, name |-> name,
     exp |-> at + exp_hours * SecondsPerHour, iat |-> at]

\* JWT_SECRET of the process environment, read by get_jwt_secret and by the Gate
get_jwt_secret == <<"JWT_SECRET">>

\* format!("{}-refresh", secret)
refresh_secret(secret) == secret \o <<"-refresh">>

\* jsonwebtoken::Header::default(): alg HS256
HeaderDefault == [alg |-> "HS256"]

\* jsonwebtoken::Validation::new(alg)
ValidationNew(alg) ==
    [algorithms |-> {alg}, leeway |-> DefaultLeeway,
     validate_exp |-> TRUE, validate_signature |-> TRUE]

\* jsonwebtoken::encode(header, claims, key)
encode(header, claims, key) ==
    [wf |-> TRUE, long |-> TRUE, alg |-> header.alg, claims |-> claims, key |-> key]

Ok(c) == [ok |-> TRUE, claims |-> c, err |-> ""]
Err(e) == [ok |-> FALSE, claims |-> NoClaims, err |-> e]

\* jsonwebtoken::decode::<Claims>(token, key, validation) at clock reading `at`
decode(token, key, validation, at) ==
    IF ~token.wf THEN Err("InvalidToken")
    ELSE IF token.alg \notin validation.algorithms THEN Err("InvalidAlgorithm")
    ELSE IF validation.validate_signature /\ token.key # key THEN Err("InvalidSignature")
    ELSE IF validation.validate_exp /\ token.claims.exp < at - validation.leeway
         THEN Err("ExpiredSignature")
    ELSE Ok(token.claims)

validate_jwt_nosig(token, secret, at) ==
    decode(token, secret, [ValidationNew("HS256") EXCEPT !.validate_signature = FALSE], at)

validate_jwt(token, secret, at) ==
    decode(token, secret, ValidationNew("HS256"), at)

generate_jwt(claims, secret) ==
    encode(HeaderDefault, claims, secret)

generate_refresh_token_samekey(claims, secret) ==
    encode(HeaderDefault, claims, secret)

generate_refresh_token(claims, secret) ==
    encode(HeaderDefault, claims, refresh_secret(secret))

validate_refresh_token_dropname(token, secret, at) ==
    LET r == decode(token, refresh_secret(secret), ValidationNew("HS256"), at)
    IN  IF r.ok THEN Ok([r.claims EXCEPT !.name = ""]) ELSE r

validate_refresh_token(token, secret, at) ==
    decode(token, refresh_secret(secret), ValidationNew("HS256"), at)

\* issue(c, p) and validate(t, p) of the Token Service, by purpose
issue(c, purpose) ==
    IF purpose = "access" THEN generate_jwt(c, get_jwt_secret)
    ELSE generate_refresh_token(c, get_jwt_secret)

validate(t, purpose, at) ==
    IF purpose = "access" THEN validate_jwt(t, get_jwt_secret, at)
    ELSE validate_refresh_token(t, get_jwt_secret, at)

Purposes == {"access", "refresh"}

----------------------------------------------------------------------------
(* Errors: errors.rs *)

ApiError_unauthorized(msg) == [kind |-> "Unauthorized", msg |-> msg]
ApiError_internal(msg) == [kind |-> "Internal", msg |-> msg]
ApiError_bad_request(msg) == [kind |-> "BadRequest", msg |-> msg]

error_code(e) ==
    CASE e.kind = "Unauthorized" -> "unauthorized"
      [] e.kind = "BadRequest" -> "bad_request"
      [] e.kind = "Internal" -> "internal_error"

\* ResponseError::error_response
error_response(e) ==
    LET sm == CASE e.kind = "Unauthorized" -> [status |-> 401, message |-> e.msg]
                [] e.kind = "BadRequest" -> [status |-> 400, message |-> e.msg]
                [] e.kind = "Internal" ->
                     [status |-> 500, message |-> "An unexpected error occurred"]
    IN  [status |-> sm.status, error |-> error_code(e), message |-> sm.message,
         access_token |-> NoToken, refresh_token |-> NoToken, expires_in |-> 0]

\* HttpResponse::Ok().json(AuthResponse {..})
AuthResponse(status, access_token, refresh_token, expires_in) ==
    [status |-> status, error |-> "", message |-> "",
     access_token |-> access_token, refresh_token |-> refresh_token,
     expires_in |-> expires_in]

NoResponse ==
    [status |-> 0, error |-> "", message |-> "",
     access_token |-> NoToken, refresh_token |-> NoToken, expires_in |-> 0]

----------------------------------------------------------------------------
(* The Request Authentication Gate: AuthMiddlewareService::call *)

\* An Authorization header: absent, not valid visible ASCII (to_str fails),
\* or a prefix followed by a token string.
NoHeader == [present |-> FALSE, ascii |-> FALSE, prefix |-> "", token |-> NoToken]

HeaderPrefixes == {"Bearer ", "bearer ", "Bearer", "Basic "}

HeadersOf(t) ==
    {NoHeader} \cup [present : {TRUE}, ascii : BOOLEAN, prefix : HeaderPrefixes, token : {t}]

\* req.headers().get("Authorization").and_then(|h| h.to_str().ok())
auth_header(h) == IF h.present /\ h.ascii THEN <<h>> ELSE <<>>

GateOutcome(h, at, invoked, attached, claims, e) ==
    [called |-> TRUE, header |-> h, at |-> at, handler_invoked |-> invoked,
     attached |-> attached, claims |-> claims,
     status |-> IF invoked THEN 0 ELSE error_response(e).status,
     error |-> IF invoked THEN "" ELSE error_response(e).error,
     message |-> IF invoked THEN "" ELSE error_response(e).message]

call_anyscheme(h, at) ==
    LET ah == auth_header(h)
    IN  IF ah # <<>>
        THEN LET r == validate_jwt(ah[1].token, get_jwt_secret, at)
             IN  IF r.ok THEN GateOutcome(h, at, TRUE, TRUE, r.claims, ApiError_unauthorized(""))
                 ELSE GateOutcome(h, at, FALSE, FALSE, NoClaims,
                                  ApiError_unauthorized("Invalid or expired token"))
        ELSE GateOutcome(h, at, FALSE, FALSE, NoClaims,
                         ApiError_unauthorized("Missing or invalid Authorization header"))

call_revocable(h, at) ==
    LET ah == auth_header(h)
    IN  IF ah # <<>> /\ ah[1].prefix = "Bearer "
        THEN LET r == validate_jwt(ah[1].token, get_jwt_secret, at)
             IN  IF r.ok /\ ~\E row \in revoked : row.user_id = r.claims.sub
                 THEN GateOutcome(h, at, TRUE, TRUE, r.claims, ApiError_unauthorized(""))
                 ELSE GateOutcome(h, at, FALSE, FALSE, NoClaims,
                                  ApiError_unauthorized("Invalid or expired token"))
        ELSE GateOutcome(h, at, FALSE, FALSE, NoClaims,
                         ApiError_unauthorized("Missing or invalid Authorization header"))

\* AuthMiddlewareService::call: status 0 stands for "passed on to the handler"
call(h, at) ==
    LET ah == auth_header(h)
    IN  IF ah # <<>> /\ ah[1].prefix = "Bearer "
        THEN LET r == validate_jwt(ah[1].token, get_jwt_secret, at)
             IN  IF r.ok THEN GateOutcome(h, at, TRUE, TRUE, r.claims, ApiError_unauthorized(""))
                 ELSE GateOutcome(h, at, FALSE, FALSE, NoClaims,
                                  ApiError_unauthorized("Invalid or expired token"))
        ELSE GateOutcome(h, at, FALSE, FALSE, NoClaims,
                         ApiError_unauthorized("Missing or invalid Authorization header"))

NoGate ==
    [called |-> FALSE, header |-> NoHeader, at |-> 0, handler_invoked |-> FALSE,
     attached |-> FALSE, claims |-> NoClaims, status |-> 0, error |-> "", message |-> ""]

----------------------------------------------------------------------------
(* Token Service harness: issue, validate and the Gate on arbitrary inputs *)

TokSubs == {"u1", "not-a-uuid"}
TokNames == {"Ann"}
TokExpOffsets == {0 - 3600, 0 - 61, 0 - 60, 0 - 1, 0, 3600}
TokKeys == {get_jwt_secret, refresh_secret(get_jwt_secret), <<"attacker">>}
TokAlgs == {"HS256", "HS384"}
TokTickSteps == {1, 60}

TokClaims ==
    [sub : TokSubs, email : {"ann@x.io"}, name : TokNames,
     exp : {StartTime + d : d \in TokExpOffsets}, iat : {StartTime - 7200}]

\* strings a client can present without knowing any key of the service, and
\* well-formed tokens under each key and algorithm
TokArbitrary ==
    [wf : {TRUE}, long : {TRUE}, alg : TokAlgs,
     claims : {c \in TokClaims : c.sub = "u1" /\ c.exp \in {StartTime - 61, StartTime + 3600}},
     key : TokKeys]
    \cup [wf : {FALSE}, long : BOOLEAN, alg : {""}, claims : {NoClaims}, key : {<<>>}]

NoTv ==
    [issued |-> FALSE, claims |-> NoClaims, purpose |-> "", token |-> NoToken,
     validated |-> FALSE, vpurpose |-> "", at |-> 0, res |-> Err("")]

TokIssue(c, p) ==
    /\ tv' = [NoTv EXCEPT !.issued = TRUE, !.claims = c, !.purpose = p,
                          !.token = issue(c, p)]
    /\ gate' = NoGate
    /\ UNCHANGED <<now, ticks, users, revoked, req, issued, rotated, loggedout, permvars, http, reg>>

TokPresent(t) ==
    /\ tv' = [NoTv EXCEPT !.token = t]
    /\ gate' = NoGate
    /\ UNCHANGED <<now, ticks, users, revoked, req, issued, rotated, loggedout, permvars, http, reg>>

TokValidate(p) ==
    /\ tv.token # NoToken
    /\ tv' = [tv EXCEPT !.validated = TRUE, !.vpurpose = p, !.at = now,
                        !.res = validate(tv.token, p, now)]
    /\ UNCHANGED <<now, ticks, users, revoked, req, issued, rotated, gate, loggedout, permvars, http, reg>>

TokGate(h) ==
    /\ gate' = call(h, now)
    /\ UNCHANGED <<now, ticks, users, revoked, req, issued, rotated, tv, loggedout, permvars, http, reg>>

TokTick(d) ==
    /\ ticks < MaxTicks
    /\ now' = now + d
    /\ ticks' = ticks + 1
    /\ UNCHANGED <<users, revoked, req, issued, rotated, gate, tv, loggedout, permvars, http, reg>>

TokNext ==
    \/ \E c \in TokClaims, p \in Purposes : TokIssue(c, p)
    \/ \E t \in TokArbitrary : TokPresent(t)
    \/ \E p \in Purposes : TokValidate(p)
    \/ \E h \in HeadersOf(tv.token) : TokGate(h)
    \/ \E d \in TokTickSteps : TokTick(d)

----------------------------------------------------------------------------
(* Auth routes: routes/auth.rs *)

\* the ids that Uuid::parse_str accepts; Uuid::nil() is one of them
UuidNil == "00000000"
\* the ids of the users rows: Uuid strings, written u1, u2, ..
UserId(n) == "u" \o ToString(n)
Uuids == {UserId(n) : n \in 1..(MaxUsers + 1)} \cup {UuidNil}

SevenDays == 7 * 24 * SecondsPerHour

\* str::to_lowercase on the e-mail addresses of the model
to_lowercase(e) ==
    CASE e = "Ann@x.io" -> "ann@x.io"
      [] e = "Bob@x.io" -> "bob@x.io"
      [] OTHER -> e

\* Argon2 verify_password(password, hash): the stored hash is modelled by the
\* password it was made from
verify_password(password, hash) == password = hash

\* sha256_hash: 16 hex digits of the 64-bit DefaultHasher digest of the token
\* string; distinct token strings of the model have distinct digests
sha256_hash(input) == <<"siphash64", input>>

\* generate_tokens(user): each Claims::new reads the clock, at1 then at2
generate_tokens(user, at1, at2) ==
    LET access_claims == ClaimsNew(user.id, user.email, user.name, AccessHours, at1)
        refresh_claims == ClaimsNew(user.id, user.email, user.name, RefreshHours, at2)
    IN  [access_token |-> generate_jwt(access_claims, get_jwt_secret),
         refresh_token |-> generate_refresh_token(refresh_claims, get_jwt_secret),
         expires_in |-> AccessHours * SecondsPerHour]

insert_revoked_plain(rows, token_hash, user_id, expires_at) ==
    rows \cup {[token_hash |-> token_hash, user_id |-> user_id,
                expires_at |-> expires_at]}

\* INSERT INTO revoked_tokens ... ON CONFLICT DO NOTHING
insert_revoked(rows, token_hash, user_id, expires_at) ==
    IF \E r \in rows : r.token_hash = token_hash THEN rows
    ELSE rows \cup {[token_hash |-> token_hash, user_id |-> user_id,
                     expires_at |-> expires_at]}

\* SELECT token_hash FROM revoked_tokens WHERE token_hash = $1
select_revoked(rows, token_hash) == {r \in rows : r.token_hash = token_hash}

IdleReq ==
    [pc |-> "idle", token |-> NoToken, token_hash |-> <<>>, user_id |-> "",
     access_token |-> NoToken, new_refresh_token |-> NoToken, expires_in |-> 0,
     resp |-> NoResponse, was_revoked |-> FALSE, was_rotated |-> FALSE,
     was_loggedout |-> FALSE, read_error |-> FALSE]

Fail(r, e) == [r EXCEPT !.pc = "done", !.resp = error_response(e)]

\* refresh_token, lines 204-222: the length check, the hash, and the
\* revocation lookup being sent
refresh_begin(body_token, was_revoked, was_rotated) ==
    LET r == [IdleReq EXCEPT !.token = body_token, !.was_revoked = was_revoked,
                             !.was_rotated = was_rotated]
    IN  IF ~body_token.long
        THEN Fail(r, ApiError_unauthorized("Invalid refresh token"))
        ELSE [r EXCEPT !.pc = "lookup", !.token_hash = sha256_hash(body_token)]

refresh_after_lookup_nocheck(r, dbok, rows, at) ==
    IF ~dbok THEN Fail(r, ApiError_internal("Database error"))
    ELSE LET claims == validate_refresh_token(r.token, get_jwt_secret, at)
         IN  IF ~claims.ok
             THEN Fail(r, ApiError_unauthorized("Invalid or expired refresh token"))
             ELSE IF claims.claims.sub \notin Uuids
             THEN Fail(r, ApiError_unauthorized("Invalid user ID in token"))
             ELSE [r EXCEPT !.pc = "fetch_user", !.user_id = claims.claims.sub]

\* refresh_token, lines 216-243: the lookup's answer, the revocation check,
\* validate_refresh_token, Uuid::parse_str, and the user query being sent
refresh_after_lookup(r, dbok, rows, at) ==
    IF ~dbok THEN Fail(r, ApiError_internal("Database error"))
    ELSE IF select_revoked(rows, r.token_hash) # {}
    THEN Fail(r, ApiError_unauthorized("Token has been revoked"))
    ELSE LET claims == validate_refresh_token(r.token, get_jwt_secret, at)
         IN  IF ~claims.ok
             THEN Fail(r, ApiError_unauthorized("Invalid or expired refresh token"))
             ELSE IF claims.claims.sub \notin Uuids
             THEN Fail(r, ApiError_unauthorized("Invalid user ID in token"))
             ELSE [r EXCEPT !.pc = "fetch_user", !.user_id = claims.claims.sub]

refresh_after_fetch_echo(r, dbok, urows, at1, at2) ==
    IF ~dbok THEN Fail(r, ApiError_internal("Database error"))
    ELSE LET found == {u \in urows : u.id = r.user_id}
         IN  IF found = {} THEN Fail(r, ApiError_unauthorized("User not found"))
             ELSE LET user == [(CHOOSE u \in found : TRUE)
                                 EXCEPT !.email = r.token.claims.email,
                                        !.name = r.token.claims.name]
                      t == generate_tokens(user, at1, at2)
                  IN  [r EXCEPT !.pc = "insert", !.access_token = t.access_token,
                                !.new_refresh_token = t.refresh_token,
                                !.expires_in = t.expires_in]

refresh_after_fetch_notfound(r, dbok, urows, at1, at2) ==
    LET found == {u \in urows : u.id = r.user_id}
    IN  IF ~dbok \/ found = {} THEN Fail(r, ApiError_unauthorized("User not found"))
        ELSE LET user == CHOOSE u \in found : TRUE
                 t == generate_tokens(user, at1, at2)
             IN  [r EXCEPT !.pc = "insert", !.access_token = t.access_token,
                           !.new_refresh_token = t.refresh_token,
                           !.expires_in = t.expires_in]

\* refresh_token, lines 237-262: the user query's answer, generate_tokens,
\* and the revocation insert being sent
refresh_after_fetch(r, dbok, urows, at1, at2) ==
    IF ~dbok THEN Fail(r, ApiError_internal("Database error"))
    ELSE LET found == {u \in urows : u.id = r.user_id}
         IN  IF found = {} THEN Fail(r, ApiError_unauthorized("User not found"))
             ELSE LET user == CHOOSE u \in found : TRUE
                      t == generate_tokens(user, at1, at2)
                  IN  [r EXCEPT !.pc = "insert", !.access_token = t.access_token,
                                !.new_refresh_token = t.refresh_token,
                                !.expires_in = t.expires_in]

\* refresh_token, lines 263-271: the insert's outcome is dropped by .ok()
\* and the new pair is returned
refresh_after_insert(r, dbok) ==
    [r EXCEPT !.pc = "done",
              !.resp = AuthResponse(200, r.access_token, r.new_refresh_token,
                                    r.expires_in)]

drop_future_deliver(r) ==
    [r EXCEPT !.pc = "cancelled",
              !.resp = IF r.pc = "insert"
                       THEN AuthResponse(200, r.access_token, r.new_refresh_token,
                                         r.expires_in)
                       ELSE NoResponse]

\* refresh_token dropped at one of its .await points (lines 221, 242, 262): the
\* handler runs no further and writes no response
drop_future(r) == [r EXCEPT !.pc = "cancelled", !.resp = NoResponse]

login_tellunknown(email, password, dbok, urows, at1, at2) ==
    IF email = "" \/ password = ""
    THEN error_response(ApiError_bad_request("Email and password are required"))
    ELSE IF ~dbok THEN error_response(ApiError_internal("Database error"))
    ELSE LET found == {u \in urows : u.email = to_lowercase(email)}
         IN  IF found = {}
             THEN error_response(ApiError_unauthorized("User not found"))
             ELSE LET user == CHOOSE u \in found : TRUE
                      t == generate_tokens(user, at1, at2)
                  IN  IF ~verify_password(password, user.password_hash)
                      THEN error_response(ApiError_unauthorized("Invalid email or password"))
                      ELSE AuthResponse(200, t.access_token, t.refresh_token, t.expires_in)

\* login, lines 88-126
login(email, password, dbok, urows, at1, at2) ==
    IF email = "" \/ password = ""
    THEN error_response(ApiError_bad_request("Email and password are required"))
    ELSE IF ~dbok THEN error_response(ApiError_internal("Database error"))
    ELSE LET found == {u \in urows : u.email = to_lowercase(email)}
         IN  IF found = {}
             THEN error_response(ApiError_unauthorized("Invalid email or password"))
             ELSE LET user == CHOOSE u \in found : TRUE
                      t == generate_tokens(user, at1, at2)
                  IN  IF ~verify_password(password, user.password_hash)
                      THEN error_response(ApiError_unauthorized("Invalid email or password"))
                      ELSE AuthResponse(200, t.access_token, t.refresh_token, t.expires_in)

logout_rows_emptytoken(rows, body, claims, dbok, at) ==
    IF ~dbok THEN rows
    ELSE LET user_id == IF claims # <<>> /\ claims[1].sub \in Uuids
                        THEN claims[1].sub ELSE UuidNil
             token == IF body = <<>> THEN NoToken ELSE body[1]
         IN  insert_revoked(rows, sha256_hash(token), user_id, at + SevenDays)

\* logout, lines 132-171: body is <<>> or <<token>>; claims is what get_claims
\* finds in the request extensions, <<>> or <<claims>>
logout_rows(rows, body, claims, dbok, at) ==
    IF body = <<>> \/ ~dbok THEN rows
    ELSE LET user_id == IF claims # <<>> /\ claims[1].sub \in Uuids
                        THEN claims[1].sub ELSE UuidNil
         IN  insert_revoked(rows, sha256_hash(body[1]), user_id, at + SevenDays)

logout_response ==
    [status |-> 200, error |-> "", message |-> "Logged out successfully",
     access_token |-> NoToken, refresh_token |-> NoToken, expires_in |-> 0]

\* HttpRequest::extensions() of a request with Authorization header h that
\* reaches a handler of the /auth scope: main.rs mounts routes::auth::config
\* beside, not inside, the scope that wraps AuthMiddleware, so the Gate has
\* not run and nothing has inserted Claims
auth_scope_extensions(h, at) == <<>>

\* get_claims: req.extensions().get::<Claims>().cloned(), <<>> or <<claims>>
get_claims(extensions) == extensions

\* UserInfo::from(user)
UserInfo_from(user) ==
    [id |-> user.id, email |-> user.email, name |-> user.name, role |-> user.role]

\* the answer of me: an error body, or 200 with the UserInfo
MeResponse(r, user) ==
    [status |-> r.status, error |-> r.error, message |-> r.message, user |-> user]

\* me, lines 176-199
me(extensions, dbok, urows) ==
    LET claims == get_claims(extensions)
    IN  IF claims = <<>>
        THEN MeResponse(error_response(ApiError_unauthorized("Not authenticated")), <<>>)
        ELSE IF claims[1].sub \notin Uuids
        THEN MeResponse(error_response(ApiError_unauthorized("Invalid user ID in token")),
                        <<>>)
        ELSE IF ~dbok
        THEN MeResponse(error_response(ApiError_internal("Database error")), <<>>)
        ELSE LET found == {u \in urows : u.id = claims[1].sub}
             IN  IF found = {}
                 THEN MeResponse(error_response(ApiError_unauthorized("User not found")),
                                 <<>>)
                 ELSE MeResponse([NoResponse EXCEPT !.status = 200],
                                 <<UserInfo_from(CHOOSE u \in found : TRUE)>>)

\* the e-mail addresses of the model that hold both '@' and '.'
contains_at_and_dot(email) == email \in {"Ann@x.io", "ann@x.io", "Bob@x.io", "bob@x.io"}

\* the passwords of the model: which have 8 characters or more, and which
\* have a lower-case letter, an upper-case letter and a digit
long_password(password) == password \in {"Passw0rd1", "password"}
mixed_password(password) == password \in {"Passw0rd1", "Ab1"}

\* validate_registration, lines 279-318, for names of 2 to 100 characters:
\* <<>> for Ok(()), or <<error>>
validate_registration(email, password, name) ==
    IF email = "" THEN <<ApiError_bad_request("Email is required")>>
    ELSE IF password = "" THEN <<ApiError_bad_request("Password is required")>>
    ELSE IF name = "" THEN <<ApiError_bad_request("Name is required")>>
    ELSE IF ~contains_at_and_dot(email)
    THEN <<ApiError_bad_request("Invalid email format")>>
    ELSE IF ~long_password(password)
    THEN <<ApiError_bad_request("Password must be at least 8 characters")>>
    ELSE IF ~mixed_password(password)
    THEN <<ApiError_bad_request(
             "Password must contain lowercase, uppercase, and numeric characters")>>
    ELSE <<>>

\* hash_password: the hash is modelled by the password it is made from
hash_password(password) == password

\* an in-flight register request: where it is suspended, its body, its answer;
\* taken and outage are history: the table held the e-mail address when the
\* answer was made, and a query of the request failed for want of the store
IdleReg ==
    [pc |-> "idle", email |-> "", name |-> "", password |-> "",
     resp |-> NoResponse, taken |-> FALSE, outage |-> FALSE]

RegFail(r, e) == [r EXCEPT !.pc = "done", !.resp = error_response(e)]

\* register, lines 34-47: validate_registration and the SELECT being sent
register_begin(email, name, password) ==
    LET r == [IdleReg EXCEPT !.email = email, !.name = name, !.password = password]
        invalid == validate_registration(email, password, name)
    IN  IF invalid # <<>> THEN RegFail(r, invalid[1])
        ELSE [r EXCEPT !.pc = "select"]

\* register, lines 40-57: the SELECT's answer, hash_password, and the INSERT
\* being sent
register_after_select(r, dbok, urows) ==
    IF ~dbok THEN [RegFail(r, ApiError_internal("Database error")) EXCEPT !.outage = TRUE]
    ELSE IF \E u \in urows : u.email = to_lowercase(r.email)
    THEN RegFail(r, ApiError_bad_request("Email already registered"))
    ELSE [r EXCEPT !.pc = "insert"]

\* INSERT INTO users (email, password_hash, name, role) .. RETURNING *: the
\* new row, with a fresh id and role UserRole::User; <<>> when the table
\* rejects the row. Whether it rejects a second row with the same email
\* (unique) is decided by the schema
insert_user(urows, email, password_hash, name, unique) ==
    IF unique /\ \E u \in urows : u.email = email THEN <<>>
    ELSE <<[id |-> UserId(Cardinality(urows) + 1), email |-> email, name |-> name,
            password_hash |-> password_hash, role |-> "user"]>>

\* register, lines 58-82: the INSERT's answer, generate_tokens and the answer
register_after_insert(r, dbok, unique, urows, at1, at2) ==
    LET inserted == insert_user(urows, to_lowercase(r.email), hash_password(r.password),
                                r.name, unique)
    IN  IF ~dbok
        THEN [RegFail(r, ApiError_internal("Failed to create user")) EXCEPT !.outage = TRUE]
        ELSE IF inserted = <<>> THEN RegFail(r, ApiError_internal("Failed to create user"))
        ELSE LET t == generate_tokens(inserted[1], at1, at2)
             IN  [r EXCEPT !.pc = "done",
                           !.resp = AuthResponse(201, t.access_token, t.refresh_token,
                                                 t.expires_in)]

\* the latest exchange of a handler that answers in one step
NoHttp ==
    [op |-> "", email |-> "", password |-> "", header |-> NoHeader, body |-> <<>>,
     dbok |-> TRUE, resp |-> NoResponse, before |-> {}, after |-> {}]

----------------------------------------------------------------------------
(* RBAC: services/permissions.rs *)

\* enum Permission, each variant written as Permission::as_str gives it
Permission ==
    {"dashboard:create", "dashboard:read", "dashboard:update", "dashboard:delete",
     "dashboard:share"}
    \cup {"dataset:upload", "dataset:read", "dataset:update", "dataset:delete",
          "dataset:share"}
    \cup {"query:create", "query:read", "query:execute", "query:delete"}
    \cup {"chart:create", "chart:read", "chart:update", "chart:delete",
          "chart:export"}
    \cup {"team:manage_members", "team:manage_settings", "team:manage_roles",
          "team:view_audit_log"}
    \cup {"admin:manage_users", "admin:manage_teams", "admin:manage_system",
          "admin:view_all_audit_logs"}

Permission_all_short == Permission \ {"admin:view_all_audit_logs"}

\* Permission::all(), each permission written as Permission::as_str gives it
Permission_all ==
    {"dashboard:create", "dashboard:read", "dashboard:update", "dashboard:delete",
     "dashboard:share",
     "dataset:upload", "dataset:read", "dataset:update", "dataset:delete",
     "dataset:share",
     "query:create", "query:read", "query:execute", "query:delete",
     "chart:create", "chart:read", "chart:update", "chart:delete", "chart:export",
     "team:manage_members", "team:manage_settings", "team:manage_roles",
     "team:view_audit_log",
     "admin:manage_users", "admin:manage_teams", "admin:manage_system",
     "admin:view_all_audit_logs"}

SystemRole == {"SuperAdmin", "Admin", "User", "ReadOnly"}

permissions_usershare(role) ==
    CASE role = "SuperAdmin" -> Permission_all
      [] role = "Admin" ->
           {"dashboard:create", "dashboard:read", "dashboard:update",
            "dashboard:delete", "dashboard:share",
            "dataset:upload", "dataset:read", "dataset:update", "dataset:delete",
            "query:create", "query:read", "query:execute", "query:delete",
            "chart:create", "chart:read", "chart:update", "chart:delete",
            "chart:export",
            "team:manage_members", "team:manage_settings",
            "admin:manage_users", "admin:manage_teams"}
      [] role = "User" ->
           {"dashboard:create", "dashboard:read", "dashboard:update",
            "dashboard:delete", "dashboard:share",
            "dataset:upload", "dataset:read", "dataset:update", "dataset:delete",
            "dataset:share",
            "query:create", "query:read", "query:execute", "query:delete",
            "chart:create", "chart:read", "chart:update", "chart:delete",
            "chart:export"}
      [] role = "ReadOnly" ->
           {"dashboard:read", "dataset:read", "query:read", "chart:read",
            "chart:export"}

\* SystemRole::permissions
permissions(role) ==
    CASE role = "SuperAdmin" -> Permission_all
      [] role = "Admin" ->
           {"dashboard:create", "dashboard:read", "dashboard:update",
            "dashboard:delete", "dashboard:share",
            "dataset:upload", "dataset:read", "dataset:update", "dataset:delete",
            "dataset:share",
            "query:create", "query:read", "query:execute", "query:delete",
            "chart:create", "chart:read", "chart:update", "chart:delete",
            "chart:export",
            "team:manage_members", "team:manage_settings",
            "admin:manage_users", "admin:manage_teams"}
      [] role = "User" ->
           {"dashboard:create", "dashboard:read", "dashboard:update",
            "dashboard:delete", "dashboard:share",
            "dataset:upload", "dataset:read", "dataset:update", "dataset:delete",
            "query:create", "query:read", "query:execute", "query:delete",
            "chart:create", "chart:read", "chart:update", "chart:delete",
            "chart:export"}
      [] role = "ReadOnly" ->
           {"dashboard:read", "dataset:read", "query:read", "chart:read",
            "chart:export"}

TeamRoleType == {"Owner", "Admin", "Member", "Viewer"}

\* TeamRoleType::team_permissions
team_permissions(role) ==
    CASE role = "Owner" ->
           {"dashboard:create", "dashboard:read", "dashboard:update",
            "dashboard:delete", "dashboard:share",
            "dataset:upload", "dataset:read", "dataset:update", "dataset:delete",
            "dataset:share",
            "query:create", "query:read", "query:execute", "query:delete",
            "chart:create", "chart:read", "chart:update", "chart:delete",
            "chart:export",
            "team:manage_members", "team:manage_settings", "team:manage_roles",
            "team:view_audit_log"}
      [] role = "Admin" ->
           {"dashboard:create", "dashboard:read", "dashboard:update",
            "dashboard:share",
            "dataset:upload", "dataset:read", "dataset:update", "dataset:share",
            "query:create", "query:read", "query:execute",
            "chart:create", "chart:read", "chart:update", "chart:export",
            "team:manage_members"}
      [] role = "Member" ->
           {"dashboard:create", "dashboard:read", "dashboard:update",
            "dataset:upload", "dataset:read",
            "query:create", "query:read", "query:execute",
            "chart:create", "chart:read", "chart:update", "chart:export"}
      [] role = "Viewer" ->
           {"dashboard:read", "dataset:read", "query:read", "chart:read",
            "chart:export"}

system_role_super(user_role) ==
    CASE user_role = "admin" -> "Admin"
      [] user_role = "user" -> "User"
      [] user_role = "readonly" -> "ReadOnly"
      [] user_role = "superadmin" -> "SuperAdmin"
      [] OTHER -> "User"

\* match user_role.as_str() { .. } of has_permission
system_role(user_role) ==
    CASE user_role = "admin" -> "Admin"
      [] user_role = "user" -> "User"
      [] user_role = "readonly" -> "ReadOnly"
      [] OTHER -> "User"

role_type_viewermember(team_role) ==
    CASE team_role = "owner" -> "Owner"
      [] team_role = "admin" -> "Admin"
      [] team_role = "member" -> "Member"
      [] team_role = "viewer" -> "Member"
      [] OTHER -> "Viewer"

\* match team_role.as_str() { .. } of has_team_permission
role_type(team_role) ==
    CASE team_role = "owner" -> "Owner"
      [] team_role = "admin" -> "Admin"
      [] team_role = "member" -> "Member"
      [] team_role = "viewer" -> "Viewer"
      [] OTHER -> "Viewer"

\* Result<bool, sqlx::Error> and Result<HashSet<Permission>, sqlx::Error>: val
\* is the bool of an Ok(bool), set the set of an Ok(HashSet)
OkBool(b) == [err |-> FALSE, val |-> b, set |-> {}]
OkSet(s) == [err |-> FALSE, val |-> FALSE, set |-> s]
ErrSqlx == [err |-> TRUE, val |-> FALSE, set |-> {}]

\* NULL of a nullable column
Null == "NULL"

\* the PgPool as a call sees it: the tables, and the tables whose queries
\* fail with sqlx::Error during the call
Pool(down) ==
    [users |-> users, team_members |-> team_members, files |-> files,
     dashboards |-> dashboards, down |-> down]

has_permission_defaultuser(pool, user_id, permission) ==
    IF "users" \in pool.down THEN ErrSqlx
    ELSE LET user == {u \in pool.users : u.id = user_id}
         IN  IF user = {} THEN OkBool(permission \in permissions("User"))
             ELSE LET user_role == (CHOOSE u \in user : TRUE).role
                  IN  OkBool(permission \in permissions(system_role(user_role)))

\* PermissionService::has_permission
has_permission(pool, user_id, permission) ==
    IF "users" \in pool.down THEN ErrSqlx
    ELSE LET user == {u \in pool.users : u.id = user_id}
         IN  IF user = {} THEN OkBool(FALSE)
             ELSE LET user_role == (CHOOSE u \in user : TRUE).role
                  IN  OkBool(permission \in permissions(system_role(user_role)))

has_team_permission_memberfirst(pool, user_id, team_id, permission) ==
    IF "team_members" \in pool.down THEN ErrSqlx
    ELSE LET team_member == {m \in pool.team_members :
                                m.team_id = team_id /\ m.user_id = user_id}
         IN  IF team_member = {} THEN OkBool(FALSE)
             ELSE LET team_role == (CHOOSE m \in team_member : TRUE).role
                  IN  OkBool(permission \in team_permissions(role_type(team_role)))

has_team_permission_systemfallback(pool, user_id, team_id, permission) ==
    LET admin == has_permission(pool, user_id, "admin:manage_teams")
    IN  IF admin.err THEN admin
        ELSE IF admin.val THEN OkBool(TRUE)
        ELSE IF "team_members" \in pool.down THEN ErrSqlx
        ELSE LET team_member == {m \in pool.team_members :
                                    m.team_id = team_id /\ m.user_id = user_id}
             IN  IF team_member = {} THEN has_permission(pool, user_id, permission)
                 ELSE LET team_role == (CHOOSE m \in team_member : TRUE).role
                      IN  OkBool(permission \in team_permissions(role_type(team_role)))

\* PermissionService::has_team_permission
has_team_permission(pool, user_id, team_id, permission) ==
    LET admin == has_permission(pool, user_id, "admin:manage_teams")
    IN  IF admin.err THEN admin
        ELSE IF admin.val THEN OkBool(TRUE)
        ELSE IF "team_members" \in pool.down THEN ErrSqlx
        ELSE LET team_member == {m \in pool.team_members :
                                    m.team_id = team_id /\ m.user_id = user_id}
             IN  IF team_member = {} THEN OkBool(FALSE)
                 ELSE LET team_role == (CHOOSE m \in team_member : TRUE).role
                      IN  OkBool(permission \in team_permissions(role_type(team_role)))

\* PermissionService::get_user_permissions
get_user_permissions(pool, user_id) ==
    IF "users" \in pool.down THEN ErrSqlx
    ELSE LET user == {u \in pool.users : u.id = user_id}
         IN  IF user = {} THEN OkSet({})
             ELSE LET user_role == (CHOOSE u \in user : TRUE).role
                  IN  OkSet(permissions(system_role(user_role)))

\* PermissionService::get_team_permissions
get_team_permissions(pool, user_id, team_id) ==
    IF "team_members" \in pool.down THEN ErrSqlx
    ELSE LET team_member == {m \in pool.team_members :
                                m.team_id = team_id /\ m.user_id = user_id}
         IN  IF team_member = {} THEN OkSet({})
             ELSE LET team_role == (CHOOSE m \in team_member : TRUE).role
                  IN  OkSet(team_permissions(role_type(team_role)))

\* the table that can_access_resource queries for a resource type
resource_table(pool, resource_type) ==
    CASE resource_type = "file" -> pool.files
      [] resource_type = "dashboard" -> pool.dashboards
      [] OTHER -> {}

resource_down(pool, resource_type) ==
    \/ resource_type = "file" /\ "files" \in pool.down
    \/ resource_type = "dashboard" /\ "dashboards" \in pool.down

can_access_resource_teamfirst(pool, user_id, resource_type, resource_id, required_permission) ==
    IF resource_down(pool, resource_type) THEN ErrSqlx
    ELSE LET rows == resource_table(pool, resource_type)
             owns == \E r \in rows : r.id = resource_id /\ r.user_id = user_id
             team_id == {r.team_id : r \in {x \in rows : x.id = resource_id
                                                        /\ x.team_id # Null}}
         IN  IF team_id # {}
             THEN has_team_permission(pool, user_id, CHOOSE t \in team_id : TRUE,
                                      required_permission)
             ELSE IF owns THEN OkBool(TRUE)
             ELSE has_permission(pool, user_id, required_permission)

can_access_resource_fallback(pool, user_id, resource_type, resource_id, required_permission) ==
    IF resource_down(pool, resource_type) THEN ErrSqlx
    ELSE LET rows == resource_table(pool, resource_type)
             owns == \E r \in rows : r.id = resource_id /\ r.user_id = user_id
             team_id == {r.team_id : r \in {x \in rows : x.id = resource_id
                                                        /\ x.team_id # Null}}
         IN  IF owns THEN OkBool(TRUE)
             ELSE IF team_id # {}
                     /\ has_team_permission(pool, user_id, CHOOSE t \in team_id : TRUE,
                                            required_permission).val
             THEN OkBool(TRUE)
             ELSE has_permission(pool, user_id, required_permission)

can_access_resource_teamless(pool, user_id, resource_type, resource_id, required_permission) ==
    IF resource_down(pool, resource_type) THEN ErrSqlx
    ELSE LET rows == resource_table(pool, resource_type)
             owns == \E r \in rows : r.id = resource_id /\ r.user_id = user_id
             team_id == {r.team_id : r \in {x \in rows : x.id = resource_id
                                                        /\ x.team_id # Null}}
         IN  IF owns THEN OkBool(TRUE)
             ELSE IF team_id # {}
             THEN has_team_permission(pool, user_id, CHOOSE t \in team_id : TRUE,
                                      required_permission)
             ELSE OkBool(FALSE)

\* PermissionService::can_access_resource
can_access_resource(pool, user_id, resource_type, resource_id, required_permission) ==
    IF resource_down(pool, resource_type) THEN ErrSqlx
    ELSE LET rows == resource_table(pool, resource_type)
             owns == \E r \in rows : r.id = resource_id /\ r.user_id = user_id
             team_id == {r.team_id : r \in {x \in rows : x.id = resource_id
                                                        /\ x.team_id # Null}}
         IN  IF owns THEN OkBool(TRUE)
             ELSE IF team_id # {}
             THEN has_team_permission(pool, user_id, CHOOSE t \in team_id : TRUE,
                                      required_permission)
             ELSE has_permission(pool, user_id, required_permission)

NoPerm ==
    [op |-> "", user_id |-> "", team_id |-> "", resource_type |-> "",
     resource_id |-> "", permission |-> "", down |-> {}, res |-> ErrSqlx]

----------------------------------------------------------------------------
(* The running service: two workers serving the clients' requests *)

Workers == {"w1", "w2"}

LoginEmails == {"Ann@x.io", "zed@x.io", ""}
LoginPasswords == {"pw-ann", "wrong"}

Ann ==
    [id |-> "u1", email |-> "ann@x.io", name |-> "Ann", password_hash |-> "pw-ann",
     role |-> "user"]

\* the refresh tokens the clients hold
Held == {i.refresh : i \in issued}

\* two successive clock readings inside one handler
ClockReads ==
    {<<now, now>>} \cup (IF ticks < MaxTicks THEN {<<now, now + 1>>} ELSE {})

Advance(at) ==
    /\ now' = at
    /\ ticks' = IF at = now THEN ticks ELSE ticks + 1

Delivered(resp) == [access |-> resp.access_token, refresh |-> resp.refresh_token]

Init ==
    /\ now = StartTime
    /\ ticks = 0
    /\ users = {Ann}
    /\ revoked = {}
    /\ req = [w \in Workers |-> IdleReq]
    /\ issued = {}
    /\ rotated = {}
    /\ loggedout = {}
    /\ team_members = {}
    /\ files = {}
    /\ dashboards = {}
    /\ perm = NoPerm
    /\ http = NoHttp
    /\ teams = {}
    /\ created = {}
    /\ reg = [w \in Workers |-> IdleReg]
    /\ gate = NoGate
    /\ tv = NoTv

Tick(d) ==
    /\ ticks < MaxTicks
    /\ now' = now + d
    /\ ticks' = ticks + 1
    /\ UNCHANGED <<users, revoked, req, issued, rotated, gate, tv, loggedout, permvars, http, reg>>

Login(email, password, dbok, cr) ==
    /\ LET resp == login(email, password, dbok, users, cr[1], cr[2])
       IN  \/ Cardinality(issued) < MaxIssued
           \/ resp.status = 200 /\ Delivered(resp) \in issued
    /\ LET resp == login(email, password, dbok, users, cr[1], cr[2])
       IN  IF resp.status = 200
           THEN /\ issued' = issued \cup {Delivered(resp)}
                /\ Advance(cr[2])
           ELSE UNCHANGED <<issued, now, ticks>>
    /\ UNCHANGED <<users, revoked, req, rotated, gate, tv, loggedout, permvars, reg>>

Logout(body, dbok) ==
    /\ Cardinality(revoked) < MaxRevoked
    /\ revoked' = logout_rows(revoked, body, <<>>, dbok, now)
    /\ UNCHANGED <<now, ticks, users, req, issued, rotated, gate, tv, permvars, reg>>

RefreshStart(w, t) ==
    /\ req[w].pc = "idle"
    /\ t \in rotated \/ Cardinality(rotated) < MaxRotated
    /\ req' = [req EXCEPT ![w] =
                 [refresh_begin(t, select_revoked(revoked, sha256_hash(t)) # {},
                                t \in rotated)
                  EXCEPT !.was_loggedout = t \in loggedout]]
    /\ UNCHANGED <<now, ticks, users, revoked, issued, rotated, gate, tv, loggedout, permvars, http, reg>>

RefreshLookup(w, dbok) ==
    /\ req[w].pc = "lookup"
    /\ req' = [req EXCEPT ![w] = [refresh_after_lookup(req[w], dbok, revoked, now)
                                  EXCEPT !.read_error = ~dbok]]
    /\ UNCHANGED <<now, ticks, users, revoked, issued, rotated, gate, tv, loggedout, permvars, http, reg>>

RefreshFetchUser(w, dbok, cr) ==
    /\ req[w].pc = "fetch_user"
    /\ req' = [req EXCEPT ![w] = [refresh_after_fetch(req[w], dbok, users, cr[1], cr[2])
                                  EXCEPT !.read_error = ~dbok]]
    /\ IF req'[w].pc = "insert" THEN Advance(cr[2]) ELSE UNCHANGED <<now, ticks>>
    /\ UNCHANGED <<users, revoked, issued, rotated, gate, tv, loggedout, permvars, http, reg>>

RefreshInsert(w, dbok) ==
    /\ req[w].pc = "insert"
    /\ revoked' = IF dbok
                  THEN insert_revoked(revoked, req[w].token_hash, req[w].user_id,
                                      now + SevenDays)
                  ELSE revoked
    /\ req' = [req EXCEPT ![w] = refresh_after_insert(req[w], dbok)]
    /\ issued' = issued \cup {Delivered(req'[w].resp)}
    /\ rotated' = rotated \cup {req[w].token}
    /\ UNCHANGED <<now, ticks, users, gate, tv, loggedout, permvars, http, reg>>

SuspensionPoints == {"lookup", "fetch_user", "insert"}

\* the client goes away while the request is suspended; a revocation insert
\* that was already sent reaches the store or not
RefreshCancel(w, applied) ==
    /\ req[w].pc \in SuspensionPoints
    /\ req' = [req EXCEPT ![w] = drop_future(req[w])]
    /\ revoked' = IF req[w].pc = "insert" /\ applied
                  THEN insert_revoked(revoked, req[w].token_hash, req[w].user_id,
                                      now + SevenDays)
                  ELSE revoked
    /\ issued' = IF req'[w].resp.status = 200
                 THEN issued \cup {Delivered(req'[w].resp)} ELSE issued
    /\ rotated' = IF req'[w].resp.status = 200
                  THEN rotated \cup {req[w].token} ELSE rotated
    /\ UNCHANGED <<now, ticks, users, gate, tv, loggedout, permvars, http, reg>>

RefreshReturn(w) ==
    /\ req[w].pc \in {"done", "cancelled"}
    /\ req' = [req EXCEPT ![w] = IdleReq]
    /\ UNCHANGED <<now, ticks, users, revoked, issued, rotated, gate, tv, loggedout, permvars, http, reg>>

\* In this specification both clock readings of a handler fall into one second.
Next ==
    \/ Tick(1)
    \/ \E e \in LoginEmails, pw \in LoginPasswords, dbok \in BOOLEAN :
          Login(e, pw, dbok, <<now, now>>) /\ UNCHANGED http
    \/ \E body \in {<<>>} \cup {<<t>> : t \in Held}, dbok \in BOOLEAN :
          Logout(body, dbok) /\ UNCHANGED <<loggedout, http>>
    \/ \E w \in Workers, t \in Held : RefreshStart(w, t)
    \/ \E w \in Workers, dbok \in BOOLEAN : RefreshLookup(w, dbok)
    \/ \E w \in Workers, dbok \in BOOLEAN : RefreshFetchUser(w, dbok, <<now, now>>)
    \/ \E w \in Workers, dbok \in BOOLEAN : RefreshInsert(w, dbok)
    \/ \E w \in Workers : RefreshReturn(w)

Spec == Init /\ [][Next]_vars

----------------------------------------------------------------------------
(* One request at a time, with any request body *)


Garbage == [wf |-> FALSE, long |-> FALSE, alg |-> "", claims |-> NoClaims, key |-> <<>>]

SeqClaims(sub, at) == ClaimsNew(sub, "ann@x.io", "Ann", RefreshHours, at)

\* request bodies: a refresh token of Ann, one that has expired, one of a user
\* the table does not hold, an access token, a token under a foreign key, and
\* a string that is no token
SeqBodies ==
    {generate_refresh_token(SeqClaims("u1", StartTime), get_jwt_secret),
     generate_refresh_token(SeqClaims("u1", StartTime - SevenDays - DefaultLeeway - 1),
                            get_jwt_secret),
     generate_refresh_token(SeqClaims("u2", StartTime), get_jwt_secret),
     generate_jwt(ClaimsNew("u1", "ann@x.io", "Ann", AccessHours, StartTime), get_jwt_secret),
     encode(HeaderDefault, SeqClaims("u1", StartTime), <<"attacker">>),
     Garbage}

SeqNext ==
    \/ Tick(1)
    \/ \E body \in {<<>>} \cup {<<t>> : t \in SeqBodies \cup Held}, dbok \in BOOLEAN :
          Logout(body, dbok) /\ UNCHANGED <<loggedout, http>>
    \/ \E t \in SeqBodies \cup Held : RefreshStart("w1", t)
    \/ \E dbok \in BOOLEAN : RefreshLookup("w1", dbok)
    \/ \E dbok \in BOOLEAN, cr \in ClockReads : RefreshFetchUser("w1", dbok, cr)
    \/ \E dbok \in BOOLEAN : RefreshInsert("w1", dbok)
    \/ RefreshReturn("w1")

SpecSeq == Init /\ [][SeqNext]_vars

----------------------------------------------------------------------------
(* One request at a time, with a record of the logouts that returned success *)

\* what a client has seen of logout: its answer is logout_response, whatever
\* the insert did
LogoutSeen(body) ==
    loggedout' = IF logout_response.status = 200
                 THEN loggedout \cup {body[i] : i \in DOMAIN body} ELSE loggedout

LogoutNext ==
    \/ Tick(1)
    \/ \E body \in {<<>>} \cup {<<t>> : t \in SeqBodies \cup Held}, dbok \in BOOLEAN :
          Logout(body, dbok) /\ LogoutSeen(body) /\ UNCHANGED http
    \/ \E t \in SeqBodies \cup Held : RefreshStart("w1", t)
    \/ \E dbok \in BOOLEAN : RefreshLookup("w1", dbok)
    \/ \E dbok \in BOOLEAN : RefreshFetchUser("w1", dbok, <<now, now>>)
    \/ \E dbok \in BOOLEAN : RefreshInsert("w1", dbok)
    \/ RefreshReturn("w1")

SpecLogout == Init /\ [][LogoutNext]_vars

----------------------------------------------------------------------------
(* One request at a time, which the client may abandon while it is suspended *)

\* the refresh tokens a client of Ann holds: one issued before the start, and
\* those delivered since
CancelBodies ==
    {generate_refresh_token(SeqClaims("u1", StartTime), get_jwt_secret)} \cup Held

CancelNext ==
    \/ Tick(1)
    \/ \E body \in {<<>>} \cup {<<t>> : t \in CancelBodies}, dbok \in BOOLEAN :
          Logout(body, dbok) /\ UNCHANGED <<loggedout, http>>
    \/ \E t \in CancelBodies : RefreshStart("w1", t)
    \/ \E dbok \in BOOLEAN : RefreshLookup("w1", dbok)
    \/ \E dbok \in BOOLEAN, cr \in ClockReads : RefreshFetchUser("w1", dbok, cr)
    \/ \E dbok \in BOOLEAN : RefreshInsert("w1", dbok)
    \/ \E applied \in BOOLEAN : RefreshCancel("w1", applied)
    \/ RefreshReturn("w1")

SpecCancel == Init /\ [][CancelNext]_vars

----------------------------------------------------------------------------
(* One request at a time, on an installation whose users row has been       *)
(* changed or deleted since the clients' tokens were issued                 *)

\* the users table: as it was when the tokens of SeqBodies were issued, with
\* Ann's row updated to a new e-mail address and name, or with the row deleted
StaleUsers ==
    {{Ann}, {[Ann EXCEPT !.email = "ann@y.io", !.name = "Ann B"]}, {}}

StaleInit ==
    /\ now = StartTime
    /\ ticks = 0
    /\ users \in StaleUsers
    /\ revoked = {}
    /\ req = [w \in Workers |-> IdleReq]
    /\ issued = {}
    /\ rotated = {}
    /\ loggedout = {}
    /\ team_members = {}
    /\ files = {}
    /\ dashboards = {}
    /\ perm = NoPerm
    /\ http = NoHttp
    /\ teams = {}
    /\ created = {}
    /\ reg = [w \in Workers |-> IdleReg]
    /\ gate = NoGate
    /\ tv = NoTv

SpecStale == StaleInit /\ [][SeqNext]_vars

----------------------------------------------------------------------------
(* Login, logout and me, one request at a time, with a record of the latest *)
(* exchange                                                                 *)

\* what the client of login has sent and received
LoginSeen(email, password, dbok, cr) ==
    http' = [NoHttp EXCEPT !.op = "login", !.email = email, !.password = password,
                           !.dbok = dbok,
                           !.resp = login(email, password, dbok, users, cr[1], cr[2])]

\* what the client of logout has sent and received, and the Revocation Store
\* before and after the request
LogoutAnswered(h, body, dbok) ==
    http' = [NoHttp EXCEPT !.op = "logout", !.header = h, !.body = body,
                           !.dbok = dbok, !.resp = logout_response,
                           !.before = revoked, !.after = revoked']

\* GET /api/auth/me with Authorization header h
Me(h, dbok) ==
    /\ http' = [NoHttp EXCEPT !.op = "me", !.header = h, !.dbok = dbok,
                              !.resp = me(auth_scope_extensions(h, now), dbok, users)]
    /\ UNCHANGED <<now, ticks, users, revoked, req, issued, rotated, loggedout, gate, tv,
                   permvars, reg>>

\* the Authorization headers of the clients: none, or one made of an access
\* token a client holds or of a string that is no token
AccountHeaders == UNION {HeadersOf(t) : t \in {i.access : i \in issued} \cup {Garbage}}

AccountNext ==
    \/ Tick(1)
    \/ \E e \in LoginEmails, pw \in LoginPasswords, dbok \in BOOLEAN, cr \in ClockReads :
          Login(e, pw, dbok, cr) /\ LoginSeen(e, pw, dbok, cr)
    \/ \E body \in {<<>>} \cup {<<t>> : t \in Held \cup {Garbage}}, dbok \in BOOLEAN,
          h \in AccountHeaders :
          Logout(body, dbok) /\ LogoutAnswered(h, body, dbok) /\ UNCHANGED loggedout
    \/ \E h \in AccountHeaders, dbok \in BOOLEAN : Me(h, dbok)

SpecAccount == Init /\ [][AccountNext]_vars

----------------------------------------------------------------------------
(* Registration: two workers serving POST /api/auth/register *)

RegisterEmails == {"Ann@x.io", "bob@x.io", "Bob@x.io", "bob"}
RegisterPasswords == {"Passw0rd1", "password"}

\* history: whether the table held the request's e-mail address when the
\* request was answered
Answered(r, urows) ==
    IF r.pc = "done"
    THEN [r EXCEPT !.taken = \E u \in urows : u.email = to_lowercase(r.email)]
    ELSE r

RegisterStart(w, email, name, password) ==
    /\ reg[w].pc = "idle"
    /\ Cardinality(users) < MaxUsers
    /\ reg' = [reg EXCEPT ![w] = Answered(register_begin(email, name, password), users)]
    /\ UNCHANGED <<now, ticks, users, revoked, req, issued, rotated, loggedout, gate, tv,
                   permvars, http>>

RegisterSelect(w, dbok) ==
    /\ reg[w].pc = "select"
    /\ reg' = [reg EXCEPT ![w] = Answered(register_after_select(reg[w], dbok, users), users)]
    /\ UNCHANGED <<now, ticks, users, revoked, req, issued, rotated, loggedout, gate, tv,
                   permvars, http>>

RegisterInsert(w, dbok, unique, cr) ==
    /\ reg[w].pc = "insert"
    /\ LET r == register_after_insert(reg[w], dbok, unique, users, cr[1], cr[2])
       IN  /\ reg' = [reg EXCEPT ![w] = Answered(r, users)]
           /\ IF r.resp.status = 201
              THEN /\ users' = users \cup {insert_user(users, to_lowercase(reg[w].email),
                                                       hash_password(reg[w].password),
                                                       reg[w].name, unique)[1]}
                   /\ issued' = issued \cup {Delivered(r.resp)}
                   /\ Advance(cr[2])
              ELSE UNCHANGED <<users, issued, now, ticks>>
    /\ UNCHANGED <<revoked, req, rotated, loggedout, gate, tv, permvars, http>>

\* the response has been written to the client
RegisterReturn(w) ==
    /\ reg[w].pc = "done"
    /\ reg' = [reg EXCEPT ![w] = IdleReg]
    /\ UNCHANGED <<now, ticks, users, revoked, req, issued, rotated, loggedout, gate, tv,
                   permvars, http>>

RegisterNext ==
    \/ Tick(1)
    \/ \E w \in Workers, e \in RegisterEmails, pw \in RegisterPasswords :
          RegisterStart(w, e, "Bob", pw)
    \/ \E w \in Workers, dbok \in BOOLEAN : RegisterSelect(w, dbok)
    \/ \E w \in Workers, dbok \in BOOLEAN, unique \in BOOLEAN, cr \in ClockReads :
          RegisterInsert(w, dbok, unique, cr)
    \/ \E w \in Workers : RegisterReturn(w)

SpecRegister == Init /\ [][RegisterNext]_vars

----------------------------------------------------------------------------
(* The PermissionService on the tables of a running installation *)

Zed ==
    [id |-> "u2", email |-> "zed@x.io", name |-> "Zed", password_hash |-> "pw-zed",
     role |-> "user"]

\* values of users.role and team_members.role: those the code matches on, and
\* one each that it does not
PermSystemRoles == {"admin", "user", "readonly", "superadmin"}
PermTeamRoles == {"owner", "admin", "member", "viewer", "guest"}

\* the identities asking ("u3" has no users row), the teams ("t2" has no
\* members) and the resources asked about ("f9", "d9": no such row; "chart":
\* a resource type the service keeps no table for)
PermIdentities == {"u1", "u3"}
PermTeams == {"t1", "t2"}
PermResources ==
    ({"file"} \X {"f1", "f2", "f3", "f4", "f9"})
    \cup ({"dashboard"} \X {"d1", "d2", "d3", "d9"})
    \cup {<<"chart", "f1">>}
PermDown == {{}, {"users"}, {"team_members"}, {"files"}, {"dashboards"}}

PermInit ==
    /\ now = StartTime
    /\ ticks = 0
    /\ users \in {{[Ann EXCEPT !.role = r], Zed} : r \in PermSystemRoles}
    /\ revoked = {}
    /\ req = [w \in Workers |-> IdleReq]
    /\ issued = {}
    /\ rotated = {}
    /\ loggedout = {}
    /\ gate = NoGate
    /\ tv = NoTv
    /\ team_members \in
         {ms \cup {[team_id |-> "t1", user_id |-> "u2", role |-> "owner"]} :
            ms \in {{}} \cup {{[team_id |-> "t1", user_id |-> "u1", role |-> r]} :
                                r \in PermTeamRoles}}
    /\ files = {[id |-> "f1", user_id |-> "u1", team_id |-> Null],
                [id |-> "f2", user_id |-> "u1", team_id |-> "t1"],
                [id |-> "f3", user_id |-> "u2", team_id |-> "t1"],
                [id |-> "f4", user_id |-> "u2", team_id |-> Null]}
    /\ dashboards = {[id |-> "d1", user_id |-> "u1", team_id |-> "t1"],
                     [id |-> "d2", user_id |-> "u2", team_id |-> "t1"],
                     [id |-> "d3", user_id |-> "u2", team_id |-> Null]}
    /\ perm = NoPerm
    /\ http = NoHttp
    /\ teams = {}
    /\ created = {}
    /\ reg = [w \in Workers |-> IdleReg]

authvars ==
    <<now, ticks, users, revoked, req, issued, rotated, loggedout, gate, tv, http, reg>>

CheckPermission(user_id, permission, down) ==
    /\ perm = NoPerm
    /\ perm' = [NoPerm EXCEPT !.op = "has_permission", !.user_id = user_id,
                  !.permission = permission, !.down = down,
                  !.res = has_permission(Pool(down), user_id, permission)]
    /\ UNCHANGED <<authvars, team_members, files, dashboards, teams, created>>

CheckTeamPermission(user_id, team_id, permission, down) ==
    /\ perm = NoPerm
    /\ perm' = [NoPerm EXCEPT !.op = "has_team_permission", !.user_id = user_id,
                  !.team_id = team_id, !.permission = permission, !.down = down,
                  !.res = has_team_permission(Pool(down), user_id, team_id, permission)]
    /\ UNCHANGED <<authvars, team_members, files, dashboards, teams, created>>

CheckResource(user_id, resource_type, resource_id, permission, down) ==
    /\ perm = NoPerm
    /\ perm' = [NoPerm EXCEPT !.op = "can_access_resource", !.user_id = user_id,
                  !.resource_type = resource_type, !.resource_id = resource_id,
                  !.permission = permission, !.down = down,
                  !.res = can_access_resource(Pool(down), user_id, resource_type,
                                              resource_id, permission)]
    /\ UNCHANGED <<authvars, team_members, files, dashboards, teams, created>>

ListUserPermissions(user_id, down) ==
    /\ perm = NoPerm
    /\ perm' = [NoPerm EXCEPT !.op = "get_user_permissions", !.user_id = user_id,
                  !.down = down, !.res = get_user_permissions(Pool(down), user_id)]
    /\ UNCHANGED <<authvars, team_members, files, dashboards, teams, created>>

ListTeamPermissions(user_id, team_id, down) ==
    /\ perm = NoPerm
    /\ perm' = [NoPerm EXCEPT !.op = "get_team_permissions", !.user_id = user_id,
                  !.team_id = team_id, !.down = down,
                  !.res = get_team_permissions(Pool(down), user_id, team_id)]
    /\ UNCHANGED <<authvars, team_members, files, dashboards, teams, created>>

\* the caller has taken the answer
PermReturn ==
    /\ perm # NoPerm
    /\ perm' = NoPerm
    /\ UNCHANGED <<authvars, team_members, files, dashboards, teams, created>>

PermNext ==
    \/ \E u \in PermIdentities, p \in Permission_all, down \in PermDown :
          CheckPermission(u, p, down)
    \/ \E u \in PermIdentities, t \in PermTeams, p \in Permission_all, down \in PermDown :
          CheckTeamPermission(u, t, p, down)
    \/ \E u \in PermIdentities, r \in PermResources, p \in Permission_all,
          down \in PermDown :
          CheckResource(u, r[1], r[2], p, down)
    \/ \E u \in PermIdentities, down \in PermDown : ListUserPermissions(u, down)
    \/ \E u \in PermIdentities, t \in PermTeams, down \in PermDown :
          ListTeamPermissions(u, t, down)
    \/ PermReturn

SpecPerm == PermInit /\ [][PermNext]_vars

----------------------------------------------------------------------------

\* ---------------------------------------------------------------------------
\* Teams (routes/teams.rs).  A row of teams is [id, slug, owner_id]; a row of
\* team_members is [team_id, user_id, role].  Each handler is one call: its
\* queries run in order and `fail` is the number of the query that returns a
\* store error (0: none); a handler that returns an error before its write
\* leaves the tables as they were.

\* generate_slug, on the names the requests carry
generate_slug(name) ==
    CASE name = "Alpha" -> "alpha"
      [] name = "alpha!" -> "alpha"
      [] name = "Beta" -> "beta"
      [] OTHER -> name

TeamId(n) == "t" \o ToString(n)

MemberRole(members, team_id, user_id) ==
    IF \E m \in members : m.team_id = team_id /\ m.user_id = user_id
    THEN (CHOOSE m \in members : m.team_id = team_id /\ m.user_id = user_id).role
    ELSE Null

\* create_team: validation, slug lookup, INSERT INTO teams, INSERT INTO
\* team_members (creator, 'owner'); the two inserts are not in a transaction
create_team(trows, members, user_id, name, fail) ==
    LET slug == generate_slug(name)
        id == TeamId(Cardinality(trows) + 1)
        row == [id |-> id, slug |-> slug, owner_id |-> user_id]
    IN  IF name = "" THEN [teams |-> trows, members |-> members, status |-> 400, id |-> Null]
        ELSE IF fail = 1
        THEN [teams |-> trows, members |-> members, status |-> 500, id |-> Null]
        ELSE IF \E t \in trows : t.slug = slug
        THEN [teams |-> trows, members |-> members, status |-> 400, id |-> Null]
        ELSE IF fail = 2
        THEN [teams |-> trows, members |-> members, status |-> 500, id |-> Null]
        ELSE IF fail = 3
        THEN [teams |-> trows \cup {row}, members |-> members, status |-> 500, id |-> Null]
        ELSE [teams |-> trows \cup {row},
              members |-> members \cup
                  {[team_id |-> id, user_id |-> user_id, role |-> "owner"]},
              status |-> 201, id |-> id]

\* add_member with the requested role stored as given
add_member_asgiven(members, urows, user_id, team_id, email, role, fail) ==
    LET mine == MemberRole(members, team_id, user_id)
        found == {u \in urows : u.email = to_lowercase(email)}
    IN  IF fail = 1 \/ mine \notin {"owner", "admin"} THEN members
        ELSE IF fail = 2 \/ found = {} THEN members
        ELSE LET target == (CHOOSE u \in found : TRUE).id
             IN  IF fail = 3 \/ MemberRole(members, team_id, target) # Null
                 THEN members
                 ELSE IF fail = 4 THEN members
                 ELSE members \cup
                        {[team_id |-> team_id, user_id |-> target, role |-> role]}

\* add_member: the caller must be owner or admin of the team; the target is
\* found by lower-cased email and must not be a member yet; a requested Owner
\* role becomes Admin
add_member(members, urows, user_id, team_id, email, role, fail) ==
    LET mine == MemberRole(members, team_id, user_id)
        found == {u \in urows : u.email = to_lowercase(email)}
    IN  IF fail = 1 \/ mine \notin {"owner", "admin"} THEN members
        ELSE IF fail = 2 \/ found = {} THEN members
        ELSE LET target == (CHOOSE u \in found : TRUE).id
             IN  IF fail = 3 \/ MemberRole(members, team_id, target) # Null
                 THEN members
                 ELSE IF fail = 4 THEN members
                 ELSE members \cup
                        {[team_id |-> team_id, user_id |-> target,
                          role |-> IF role = "owner" THEN "admin" ELSE role]}

\* update_member_role: only the owner may call it; the Owner role cannot be
\* assigned; the owner's row cannot be changed
update_member_role(members, user_id, team_id, target, role, fail) ==
    IF fail = 1 \/ MemberRole(members, team_id, user_id) # "owner" THEN members
    ELSE IF role = "owner" THEN members
    ELSE IF fail = 2 \/ MemberRole(members, team_id, target) \in {"owner", Null}
    THEN members
    ELSE IF fail = 3 THEN members
    ELSE {IF m.team_id = team_id /\ m.user_id = target
          THEN [m EXCEPT !.role = role] ELSE m : m \in members}

\* remove_member: the caller must be owner or admin; the owner's row cannot
\* be removed
remove_member(members, user_id, team_id, target, fail) ==
    IF fail = 1 \/ MemberRole(members, team_id, user_id) \notin {"owner", "admin"}
    THEN members
    ELSE IF fail = 2 \/ MemberRole(members, team_id, target) \in {"owner", Null}
    THEN members
    ELSE IF fail = 3 THEN members
    ELSE {m \in members : ~(m.team_id = team_id /\ m.user_id = target)}

\* leave_team: a member other than the owner deletes its own row
leave_team(members, user_id, team_id, fail) ==
    IF fail = 1 \/ MemberRole(members, team_id, user_id) \in {"owner", Null}
    THEN members
    ELSE IF fail = 2 THEN members
    ELSE {m \in members : ~(m.team_id = team_id /\ m.user_id = user_id)}

\* The teams service: three users, callers authenticated as one of them
Cat ==
    [id |-> "u3", email |-> "cat@x.io", name |-> "Cat", password_hash |-> "pw-cat",
     role |-> "user"]

TeamCallers == {"u1", "u2", "u3"}
TeamNames == {"Alpha", "alpha!", "Beta", ""}
TeamIds == {TeamId(1), TeamId(2)}
TeamEmails == {"Ann@x.io", "zed@x.io", "cat@x.io", "nobody@x.io"}
TeamRole == {"owner", "admin", "member", "viewer"}

TeamsInit ==
    /\ now = StartTime
    /\ ticks = 0
    /\ users = {Ann, Zed, Cat}
    /\ revoked = {}
    /\ req = [w \in Workers |-> IdleReq]
    /\ issued = {}
    /\ rotated = {}
    /\ loggedout = {}
    /\ gate = NoGate
    /\ tv = NoTv
    /\ team_members = {}
    /\ files = {}
    /\ dashboards = {}
    /\ perm = NoPerm
    /\ http = NoHttp
    /\ reg = [w \in Workers |-> IdleReg]
    /\ teams = {}
    /\ created = {}

teamrest == <<authvars, files, dashboards, perm>>

CreateTeam(user_id, name, fail) ==
    LET r == create_team(teams, team_members, user_id, name, fail)
    IN  /\ teams' = r.teams
        /\ team_members' = r.members
        /\ created' = IF r.status = 201 THEN created \cup {r.id} ELSE created
        /\ UNCHANGED teamrest

AddMember(user_id, team_id, email, role, fail) ==
    /\ team_members' = add_member(team_members, users, user_id, team_id, email, role, fail)
    /\ UNCHANGED <<teamrest, teams, created>>

UpdateMemberRole(user_id, team_id, target, role, fail) ==
    /\ team_members' = update_member_role(team_members, user_id, team_id, target, role, fail)
    /\ UNCHANGED <<teamrest, teams, created>>

RemoveMember(user_id, team_id, target, fail) ==
    /\ team_members' = remove_member(team_members, user_id, team_id, target, fail)
    /\ UNCHANGED <<teamrest, teams, created>>

LeaveTeam(user_id, team_id, fail) ==
    /\ team_members' = leave_team(team_members, user_id, team_id, fail)
    /\ UNCHANGED <<teamrest, teams, created>>

TeamsNext ==
    \/ \E u \in TeamCallers, n \in TeamNames, f \in 0..3 : CreateTeam(u, n, f)
    \/ \E u \in TeamCallers, t \in TeamIds, e \in TeamEmails, r \in TeamRole, f \in 0..4 :
          AddMember(u, t, e, r, f)
    \/ \E u \in TeamCallers, t \in TeamIds, x \in TeamCallers, r \in TeamRole, f \in 0..3 :
          UpdateMemberRole(u, t, x, r, f)
    \/ \E u \in TeamCallers, t \in TeamIds, x \in TeamCallers, f \in 0..3 :
          RemoveMember(u, t, x, f)
    \/ \E u \in TeamCallers, t \in TeamIds, f \in 0..2 : LeaveTeam(u, t, f)

SpecTeams == TeamsInit /\ [][TeamsNext]_vars

TokInit ==
    /\ now = StartTime
    /\ ticks = 0
    /\ users = {}
    /\ revoked = {}
    /\ req = [w \in Workers |-> IdleReq]
    /\ issued = {}
    /\ rotated = {}
    /\ loggedout = {}
    /\ team_members = {}
    /\ files = {}
    /\ dashboards = {}
    /\ perm = NoPerm
    /\ http = NoHttp
    /\ teams = {}
    /\ created = {}
    /\ reg = [w \in Workers |-> IdleReg]
    /\ gate = NoGate
    /\ tv = NoTv

SpecToken == TokInit /\ [][TokNext]_vars

----------------------------------------------------------------------------
(* Properties of the token service and the Gate, under SpecToken *)

PurposeKey(p) ==
    IF p = "access" THEN get_jwt_secret ELSE refresh_secret(get_jwt_secret)

BearerForm(h) == h.present /\ h.ascii /\ h.prefix = "Bearer "

\* C6: a token whose exp is earlier than the time of validation is rejected, at
\* refresh-token and access-token validation and at the Gate, whatever its
\* signature, and the Gate answers 401
C6_ExpiredAlwaysRejected ==
    /\ tv.validated /\ tv.token.wf /\ tv.token.claims.exp < tv.at => ~tv.res.ok
    /\ gate.called /\ BearerForm(gate.header) /\ gate.header.token.wf
         /\ gate.header.token.claims.exp < gate.at
       => ~gate.handler_invoked /\ gate.status = 401

\* C7: a token issued for one purpose is rejected by the validation of the
\* other purpose, and a token issued as a refresh token never passes the Gate
C7_CrossPurposeRejected ==
    /\ tv.issued /\ tv.validated /\ tv.vpurpose # tv.purpose => ~tv.res.ok
    /\ tv.issued /\ tv.purpose = "refresh" /\ gate.called => ~gate.handler_invoked

C7_Witness ==
    /\ tv.issued /\ tv.validated /\ tv.purpose = "access" /\ tv.vpurpose = "refresh"
    /\ tv.claims.exp > tv.at
    /\ tv.res.err = "InvalidSignature"

\* C8: validation for a purpose succeeds only for a well-formed token whose
\* header names HS256 and whose signature verifies under that purpose's key;
\* the Gate passes only such tokens under the access key
C8_NoForgedTokenAccepted ==
    /\ tv.validated /\ tv.res.ok
       => tv.token.wf /\ tv.token.alg = "HS256" /\ tv.token.key = PurposeKey(tv.vpurpose)
    /\ gate.called /\ gate.handler_invoked
       => gate.header.token.wf /\ gate.header.token.alg = "HS256"
          /\ gate.header.token.key = PurposeKey("access")

C8_Witness ==
    /\ ~tv.issued /\ tv.validated /\ tv.vpurpose = "access"
    /\ tv.token.wf /\ tv.token.alg = "HS256" /\ tv.token.key = <<"attacker">>
    /\ tv.token.claims.exp > tv.at
    /\ ~tv.res.ok

\* C9: validating, for purpose p, the token issued for (c, p) whose exp is not
\* in the past returns claims equal to c in sub, email, name, iat and exp
C9_RoundTrip ==
    tv.issued /\ tv.validated /\ tv.vpurpose = tv.purpose /\ tv.claims.exp >= tv.at
    => /\ tv.res.ok
       /\ tv.res.claims.sub = tv.claims.sub
       /\ tv.res.claims.email = tv.claims.email
       /\ tv.res.claims.name = tv.claims.name
       /\ tv.res.claims.iat = tv.claims.iat
       /\ tv.res.claims.exp = tv.claims.exp

C9_Witness ==
    /\ tv.issued /\ tv.validated /\ tv.purpose = "refresh" /\ tv.vpurpose = "refresh"
    /\ tv.claims.exp >= tv.at /\ tv.claims.name = "Ann"
    /\ tv.res.ok /\ tv.res.claims = tv.claims

\* C10: the Gate invokes the handler exactly for a header "Bearer <token>"
\* whose token passes access-token validation, then with exactly the validated
\* claims attached; every other request ends in 401 Unauthorized with no
\* claims attached and without the handler running
C10_HardGate ==
    gate.called =>
      LET r == validate_jwt(gate.header.token, get_jwt_secret, gate.at)
      IN  /\ gate.handler_invoked <=> (BearerForm(gate.header) /\ r.ok)
          /\ gate.handler_invoked => gate.attached /\ gate.claims = r.claims
          /\ ~gate.handler_invoked
             => ~gate.attached /\ gate.status = 401 /\ gate.error = "unauthorized"

C10_Witness ==
    /\ gate.called /\ gate.handler_invoked /\ gate.attached
    /\ gate.claims = gate.header.token.claims /\ gate.claims.sub = "u1"

----------------------------------------------------------------------------
(* Properties of rotation and revocation *)

Returned(w) == req[w].pc = "done" /\ req[w].resp.status = 200

Recorded(rows, t) == select_revoked(rows, sha256_hash(t)) # {}

\* refresh(t), run on its own against the given tables and clock, returns a pair
Rotatable(t, rows, urows, at) ==
    /\ t.long
    /\ ~Recorded(rows, t)
    /\ LET c == validate_refresh_token(t, get_jwt_secret, at)
       IN  c.ok /\ c.claims.sub \in Uuids /\ \E u \in urows : u.id = c.claims.sub

Bearer(t) == [present |-> TRUE, ascii |-> TRUE, prefix |-> "Bearer ", token |-> t]

\* C1: a refresh(t) that starts after a refresh(t) has returned a token pair
\* returns no token pair (under SpecSeq: one request at a time)
C1_SecondRefreshReturnsNoPair ==
    \A w \in Workers : req[w].pc = "done" /\ req[w].was_rotated => req[w].resp.status # 200

\* C2: of two refresh requests in flight together with the same refresh token,
\* at most one returns a token pair
C2_AtMostOneConcurrentRotation ==
    \A w1, w2 \in Workers :
        w1 # w2 /\ req[w1].token = req[w2].token
        /\ ~req[w1].was_rotated /\ ~req[w2].was_rotated
        => ~(Returned(w1) /\ Returned(w2))

\* C3: a refresh(t) that starts when a record for hash(t) is in the
\* Revocation Store fails and returns no tokens, whether or not t is validly
\* signed or expired
C3_RevokedNeverRefreshes ==
    \A w \in Workers :
        req[w].pc = "done" /\ req[w].was_revoked
        => /\ req[w].resp.status \in {401, 500}
           /\ req[w].resp.access_token = NoToken
           /\ req[w].resp.refresh_token = NoToken

C3_Witness ==
    \E w \in Workers :
        /\ req[w].pc = "done" /\ req[w].was_revoked
        /\ validate_refresh_token(req[w].token, get_jwt_secret, now).ok
        /\ req[w].resp.status = 401
        /\ req[w].resp.message = "Token has been revoked"

\* C4: a token pair is returned only if the old refresh token's hash is
\* recorded in the Revocation Store
C4_ReturnedImpliesRecorded ==
    \A w \in Workers : Returned(w) => Recorded(revoked, req[w].token)

\* C5: at the moment refresh(refresh_1) returns (access_2, refresh_2), access_2
\* passes the Gate and refresh(refresh_2) would succeed, whatever the timing
C5_RotatedPairUsable ==
    [][\A w \in Workers :
          req[w].pc = "insert" /\ req'[w].pc = "done"
          => /\ req'[w].resp.status = 200
             /\ call(Bearer(req'[w].resp.access_token), now').handler_invoked
             /\ Rotatable(req'[w].resp.refresh_token, revoked', users', now')]_vars

----------------------------------------------------------------------------
(* Properties of the responses and of the Revocation Store *)

SameRejection(a, b) ==
    a.status = b.status /\ a.error = b.error /\ a.message = b.message

\* the token is malformed, wrongly signed or expired at clock reading `at`
BadToken(t, at) ==
    ~t.wf \/ t.key # refresh_secret(get_jwt_secret) \/ t.claims.exp < at

\* the answer of refresh_token to body token t when no store access fails
RefreshAnswer(t, rows, at) ==
    LET r0 == refresh_begin(t, FALSE, FALSE)
        r1 == IF r0.pc = "lookup" THEN refresh_after_lookup(r0, TRUE, rows, at) ELSE r0
    IN  r1.resp

\* C11: the 401 answer of the refresh endpoint to a malformed, wrongly signed,
\* expired or revoked token equals, in status, error code and message, its 401
\* answer to any other such token; the same for the Gate's 401 answers
C11_UniformAuthFailure ==
    /\ \A w \in Workers :
          req[w].pc = "done" /\ req[w].resp.status = 401
          /\ (req[w].was_revoked \/ BadToken(req[w].token, now))
          => \A t \in SeqBodies :
                (Recorded(revoked, t) \/ BadToken(t, now))
                /\ RefreshAnswer(t, revoked, now).status = 401
                => SameRejection(req[w].resp, RefreshAnswer(t, revoked, now))
    /\ \A t1, t2 \in SeqBodies :
          ~call(Bearer(t1), now).handler_invoked /\ ~call(Bearer(t2), now).handler_invoked
          => SameRejection(call(Bearer(t1), now), call(Bearer(t2), now))

\* C12: the Revocation Store never holds two records for one token hash,
\* recording a hash that is already recorded leaves the store as it is, and a
\* rotation whose insert meets an existing record still returns its pair
C12_RecordIdempotent ==
    /\ \A r1, r2 \in revoked : r1.token_hash = r2.token_hash => r1 = r2
    /\ \A r \in revoked, u \in Uuids :
          insert_revoked(revoked, r.token_hash, u, now + SevenDays) = revoked
    /\ \A w \in Workers :
          req[w].pc = "insert"
          => refresh_after_insert(req[w], TRUE).resp.status = 200

\* a logout recorded the hash while a rotation of the same token was in
\* flight, and the rotation's insert met that record and returned its pair
C12_Witness ==
    \E w \in Workers :
        /\ Returned(w) /\ ~req[w].was_revoked
        /\ \E r \in revoked : r.token_hash = req[w].token_hash /\ r.user_id = UuidNil
        /\ Cardinality(revoked) = 1

\* C13: whether an access token delivered earlier passes the Gate is decided by
\* the token, the secret and the clock alone: it passes exactly if validate_jwt
\* accepts it, whatever logout and rotation have put into the Revocation Store
C13_GateIgnoresRevocation ==
    \A i \in issued :
        /\ call(Bearer(i.access), now).handler_invoked
           <=> validate_jwt(i.access, get_jwt_secret, now).ok
        /\ i.access.claims.exp >= now => call(Bearer(i.access), now).handler_invoked

\* the refresh token of a delivered pair is recorded as revoked, under the
\* user's id, and the pair's access token passes the Gate
C13_Witness ==
    \E i \in issued :
        /\ \E r \in revoked : r.token_hash = sha256_hash(i.refresh)
                             /\ r.user_id = i.access.claims.sub
        /\ call(Bearer(i.access), now).handler_invoked

\* C14: a refresh request cancelled at a suspension point delivers no token
\* pair and removes nothing from the Revocation Store, so cancellation never
\* leads to "old token still usable and new pair delivered"
C14_CancelDeliversNothing ==
    [][\A w \in Workers :
          req[w].pc \in SuspensionPoints /\ req'[w].pc = "cancelled"
          => /\ req'[w].resp = NoResponse
             /\ issued' = issued
             /\ revoked \subseteq revoked']_vars

\* cancelled after minting: the old token is still usable, the minted pair
\* was not delivered
C14_Witness ==
    \E w \in Workers :
        /\ req[w].pc = "cancelled" /\ req[w].new_refresh_token # NoToken
        /\ Rotatable(req[w].token, revoked, users, now)
        /\ \A i \in issued : i.refresh # req[w].new_refresh_token

\* C15: a refresh(t) that starts after logout(t) has returned success returns
\* no token pair
C15_LogoutRevokes ==
    \A w \in Workers :
        req[w].pc = "done" /\ req[w].was_loggedout => req[w].resp.status # 200

----------------------------------------------------------------------------
(* Properties of the permission resolver, under SpecPerm *)

\* the users row of the identity of the latest call (at most one)
PermUser == {u \in users : u.id = perm.user_id}

\* the identity's system role grants admin:manage_teams
AdminOverride ==
    \E u \in PermUser : "admin:manage_teams" \in permissions(system_role(u.role))

\* the rows of the resource of the latest call, in the table of its type
PermResource ==
    {r \in (IF perm.resource_type = "file" THEN files
            ELSE IF perm.resource_type = "dashboard" THEN dashboards ELSE {}) :
       r.id = perm.resource_id}

\* the ownership query of the latest call was answered
OwnershipAnswered ==
    /\ perm.resource_type = "file" => "files" \notin perm.down
    /\ perm.resource_type = "dashboard" => "dashboards" \notin perm.down

PermOwner == \E r \in PermResource : r.user_id = perm.user_id

PermTeam == {r.team_id : r \in {x \in PermResource : x.team_id # Null}}

\* the roles of each hierarchy, lowest first
SystemRoleOrder == <<"ReadOnly", "User", "Admin", "SuperAdmin">>
TeamRoleOrder == <<"Viewer", "Member", "Admin", "Owner">>

\* C16: in each hierarchy the permission set of a role is contained in the
\* set of the next higher role: for the role of every users row and of every
\* team_members row, and for the roles above it
C16_RoleMonotonicity ==
    /\ \A u \in users : \A i \in 1..(Len(SystemRoleOrder) - 1) :
          (\E j \in 1..i : SystemRoleOrder[j] = system_role(u.role))
          => permissions(SystemRoleOrder[i]) \subseteq permissions(SystemRoleOrder[i + 1])
    /\ \A m \in team_members : \A i \in 1..(Len(TeamRoleOrder) - 1) :
          (\E j \in 1..i : TeamRoleOrder[j] = role_type(m.role))
          => team_permissions(TeamRoleOrder[i])
             \subseteq team_permissions(TeamRoleOrder[i + 1])

\* a permission granted to an identity of system role User, which Admin and
\* SuperAdmin hold as well
C16_Witness ==
    /\ perm.op = "has_permission" /\ perm.res = OkBool(TRUE)
    /\ \E u \in PermUser : system_role(u.role) = "User"
    /\ perm.permission = "chart:delete"
    /\ perm.permission \in permissions("Admin") \cap permissions("SuperAdmin")

\* C17: when the identity is the recorded owner of the file or dashboard,
\* can_access_resource allows, for every permission and whatever the users and
\* team_members tables hold or answer
C17_OwnershipPrecedence ==
    perm.op = "can_access_resource" /\ OwnershipAnswered /\ PermOwner
    => perm.res = OkBool(TRUE)

\* the owner is no member of the resource's team, has_team_permission for
\* that team denies, and can_access_resource allows
C17_Witness ==
    /\ perm.op = "can_access_resource" /\ PermOwner /\ perm.res = OkBool(TRUE)
    /\ \E t \in PermTeam :
          /\ ~\E m \in team_members : m.team_id = t /\ m.user_id = perm.user_id
          /\ has_team_permission(Pool({}), perm.user_id, t, perm.permission)
             = OkBool(FALSE)
    /\ perm.permission \notin UNION {permissions(system_role(u.role)) : u \in PermUser}

\* C18: for a resource the identity does not own and that belongs to a team,
\* can_access_resource returns what has_team_permission returns for that team;
\* what has_permission says of the identity is no fallback
C18_TeamResourceDefersToTeam ==
    perm.op = "can_access_resource" /\ OwnershipAnswered /\ ~PermOwner
    => \A t \in PermTeam :
          perm.res = has_team_permission(Pool(perm.down), perm.user_id, t,
                                         perm.permission)

\* the system role holds the permission, the identity is no member of the
\* team, and can_access_resource denies
C18_Witness ==
    /\ perm.op = "can_access_resource" /\ ~PermOwner /\ PermTeam # {}
    /\ has_permission(Pool({}), perm.user_id, perm.permission) = OkBool(TRUE)
    /\ perm.res = OkBool(FALSE)

\* C19: for a resource the identity does not own and that has no team,
\* can_access_resource returns what has_permission returns
C19_TeamlessResourceDefersToSystem ==
    perm.op = "can_access_resource" /\ OwnershipAnswered /\ ~PermOwner /\ PermTeam = {}
    => perm.res = has_permission(Pool(perm.down), perm.user_id, perm.permission)

C19_Witness ==
    /\ perm.op = "can_access_resource" /\ ~PermOwner /\ PermTeam = {}
    /\ PermResource # {} /\ perm.down = {}
    /\ perm.res = OkBool(TRUE)
    /\ \E u \in PermUser : perm.permission \in permissions(system_role(u.role))

\* C20: has_team_permission allows an identity whose system role grants
\* admin:manage_teams, for every team and permission, member or not; otherwise
\* it denies a non-member; otherwise it answers whether the member's team
\* role's permission set contains the permission
C20_TeamPermissionPrecedence ==
    perm.op = "has_team_permission" /\ "users" \notin perm.down
    => LET member == {m \in team_members :
                         m.team_id = perm.team_id /\ m.user_id = perm.user_id}
       IN  /\ AdminOverride => perm.res = OkBool(TRUE)
           /\ ~AdminOverride /\ "team_members" \notin perm.down /\ member = {}
              => perm.res = OkBool(FALSE)
           /\ ~AdminOverride /\ "team_members" \notin perm.down
              => \A m \in member :
                    perm.res = OkBool(perm.permission
                                      \in team_permissions(role_type(m.role)))

\* a system admin who is no member of the team is allowed a permission that
\* neither its system role nor any membership gives it
C20_Witness ==
    /\ perm.op = "has_team_permission" /\ AdminOverride
    /\ ~\E m \in team_members : m.team_id = perm.team_id /\ m.user_id = perm.user_id
    /\ perm.permission = "team:manage_roles"
    /\ perm.res = OkBool(TRUE)

\* the membership rows of the identity of the latest call in the team of the
\* latest call
PermMember ==
    {m \in team_members : m.team_id = perm.team_id /\ m.user_id = perm.user_id}

RecognisedSystemRoles == {"admin", "user", "readonly"}
RecognisedTeamRoles == {"owner", "admin", "member", "viewer"}

\* C22: an identity whose stored system role string is not a recognised one is
\* allowed by has_permission no permission outside the set of ReadOnly, and a
\* member whose stored team role string is not a recognised one is allowed by
\* has_team_permission (without the admin override) no permission outside
\* the set of Viewer
C22_UnknownRoleLeastPrivileged ==
    /\ perm.op = "has_permission"
       /\ (\E u \in PermUser : u.role \notin RecognisedSystemRoles)
       /\ perm.res.val
       => perm.permission \in permissions("ReadOnly")
    /\ perm.op = "has_team_permission"
       /\ (\E m \in PermMember : m.role \notin RecognisedTeamRoles)
       /\ (\E u \in PermUser : u.role \in RecognisedSystemRoles) /\ ~AdminOverride
       /\ perm.res.val
       => perm.permission \in team_permissions("Viewer")

\* the system role that each recognised value of users.role names
StoredSystemRole == [admin |-> "Admin", user |-> "User", readonly |-> "ReadOnly"]

\* C23: has_permission answers true only for an identity that has a users row
\* and a permission that the set of the row's system role contains; it answers
\* true for every such identity and permission, and false for every
\* permission of an identity without a users row, when its query is answered
C23_SystemPermissionExact ==
    perm.op = "has_permission"
    => /\ PermUser = {} => ~perm.res.val
       /\ PermUser = {} /\ "users" \notin perm.down => perm.res = OkBool(FALSE)
       /\ \A u \in PermUser :
             u.role \in RecognisedSystemRoles
             => LET granted == perm.permission \in permissions(StoredSystemRole[u.role])
                IN  /\ perm.res.val => granted
                    /\ "users" \notin perm.down => perm.res = OkBool(granted)

\* an existing identity is allowed a permission of its role's set
C23_Witness ==
    /\ perm.op = "has_permission" /\ perm.down = {}
    /\ \E u \in PermUser : u.role = "readonly"
    /\ perm.permission = "dashboard:read"
    /\ perm.res = OkBool(TRUE)

\* the identity of the latest call is related to the team of the resource of
\* the latest call only as a member of team role viewer: it does not own the
\* resource and its system role gives no admin override
ViewerOnly ==
    /\ ~PermOwner /\ ~AdminOverride
    /\ \E t \in PermTeam :
          LET member == {m \in team_members :
                            m.team_id = t /\ m.user_id = perm.user_id}
          IN  member # {} /\ \A m \in member : m.role = "viewer"

\* C24: can_access_resource on a dashboard of a team denies dashboard:create
\* and allows dashboard:read to an identity that is related to the team only
\* as a viewer
C24_ViewerScenario ==
    perm.op = "can_access_resource" /\ perm.resource_type = "dashboard"
    /\ perm.down = {} /\ ViewerOnly
    => /\ perm.permission = "dashboard:create" => perm.res = OkBool(FALSE)
       /\ perm.permission = "dashboard:read" => perm.res = OkBool(TRUE)

\* a viewer whose system role has dashboard:create is denied it on the
\* team's dashboard
C24_Witness ==
    /\ perm.op = "can_access_resource" /\ perm.resource_type = "dashboard"
    /\ perm.down = {} /\ ViewerOnly
    /\ \E u \in PermUser : "dashboard:create" \in permissions(system_role(u.role))
    /\ perm.permission = "dashboard:create"
    /\ perm.res = OkBool(FALSE)

\* C25: the permission set of SystemRole::SuperAdmin is the set of all
\* permissions, the set of every other system role is a strict subset of it,
\* and so is the set of the role of every stored identity
C25_SuperAdminHasAll ==
    /\ permissions("SuperAdmin") = Permission
    /\ \A r \in SystemRole \ {"SuperAdmin"} :
          permissions(r) \subseteq permissions("SuperAdmin")
          /\ permissions(r) # permissions("SuperAdmin")
    /\ \A u \in users :
          permissions(system_role(u.role)) \subseteq permissions("SuperAdmin")
          /\ permissions(system_role(u.role)) # permissions("SuperAdmin")

\* a stored admin is denied a permission that only SuperAdmin's set has
C25_Witness ==
    /\ perm.op = "has_permission" /\ perm.down = {}
    /\ \E u \in PermUser : u.role = "admin"
    /\ perm.permission \in permissions("SuperAdmin") \ permissions("Admin")
    /\ perm.res = OkBool(FALSE)

----------------------------------------------------------------------------
(* Properties of login, logout and me, under SpecAccount *)

\* C26: every logout is answered 200 with the success body, whatever its
\* Authorization header and its body and whether or not the insert into the
\* Revocation Store succeeds, and a logout without a body leaves the
\* Revocation Store as it was
C26_LogoutAlwaysSucceeds ==
    http.op = "logout"
    => /\ http.resp.status = 200 /\ http.resp.error = ""
       /\ http.resp.message = "Logged out successfully"
       /\ http.body = <<>> => http.after = http.before

\* a logout with a Bearer header and a refresh token in the body is answered
\* 200 although the insert failed and nothing was recorded
C26_Witness ==
    /\ http.op = "logout" /\ http.body # <<>> /\ ~http.dbok
    /\ http.header.present /\ http.header.prefix = "Bearer "
    /\ http.resp.status = 200
    /\ http.after = http.before

\* C27: GET /api/auth/me with a valid, unexpired access token of an existing
\* user in 'Authorization: Bearer' is answered 200 with that user's info, and
\* without an Authorization header it is answered 401
C27_MeProtected ==
    http.op = "me" /\ http.dbok
    => /\ BearerForm(http.header)
          => LET r == validate_jwt(http.header.token, get_jwt_secret, now)
             IN  \A u \in users :
                    r.ok /\ r.claims.sub = u.id
                    => /\ http.resp.status = 200
                       /\ http.resp.user = <<UserInfo_from(u)>>
       /\ ~http.header.present => http.resp.status = 401

\* the e-mail address of the latest login is that of no users row
UnknownEmail == ~\E u \in users : u.email = to_lowercase(http.email)

\* the e-mail address of the latest login is that of a users row, and the
\* password is not the one the row's hash was made from
WrongPassword ==
    \E u \in users : u.email = to_lowercase(http.email) /\ u.password_hash # http.password

\* C28: a login with an unknown e-mail address and a login with a known
\* address and a wrong password are answered with one and the same response,
\* 401 with code unauthorized and message 'Invalid email or password', and
\* hold no tokens
C28_LoginUniformRejection ==
    http.op = "login" /\ http.dbok /\ http.email # "" /\ http.password # ""
    /\ (UnknownEmail \/ WrongPassword)
    => http.resp = [status |-> 401, error |-> "unauthorized",
                    message |-> "Invalid email or password",
                    access_token |-> NoToken, refresh_token |-> NoToken,
                    expires_in |-> 0]

\* a login with an unknown address has been rejected
C28_Witness ==
    /\ http.op = "login" /\ http.dbok /\ http.email # "" /\ http.password # ""
    /\ UnknownEmail
    /\ http.resp.status = 401

----------------------------------------------------------------------------
(* Properties of registration, under SpecRegister *)

\* C29: no two users rows hold the same e-mail address, and a registration
\* that is answered when the table holds its e-mail address, letter case
\* ignored, is answered 400 or 409 and with no tokens (requests that met a
\* store outage set aside)
C29_EmailUnique ==
    /\ \A u1 \in users, u2 \in users : u1.email = u2.email => u1 = u2
    /\ \A w \in Workers :
          reg[w].pc = "done" /\ reg[w].taken /\ ~reg[w].outage
          => /\ reg[w].resp.status \in {400, 409}
             /\ reg[w].resp.access_token = NoToken
             /\ reg[w].resp.refresh_token = NoToken

----------------------------------------------------------------------------
(* Properties of the token pairs that register, login and refresh return *)

\* the lifetimes of the tokens of a returned pair, and the lifetime announced
PairLifetimes(resp) ==
    /\ resp.access_token.claims.exp - resp.access_token.claims.iat = 3600
    /\ resp.refresh_token.claims.exp - resp.refresh_token.claims.iat = 604800
    /\ resp.expires_in = 3600

\* C30: every token pair returned by register, login or refresh has an access
\* token of 3600 seconds and a refresh token of 604800 seconds from iat to
\* exp, the same iat in both, and expires_in 3600
C30_PairLifetimes ==
    LET pairs == {reg[w].resp : w \in {x \in Workers : reg[x].resp.status = 201}}
                 \cup {req[w].resp : w \in {x \in Workers : req[x].resp.status = 200}}
                 \cup (IF http.op = "login" /\ http.resp.status = 200
                       THEN {http.resp} ELSE {})
    IN  \A resp \in pairs :
           /\ PairLifetimes(resp)
           /\ resp.access_token.claims.iat = resp.refresh_token.claims.iat

----------------------------------------------------------------------------
(* Further properties of refresh *)

\* C31: a step of a refresh request that does not end it with a token pair
\* leaves the Revocation Store as it is; a refresh that ends in failure holds
\* no tokens; and when a read of the store failed (read_error) the failure is
\* 500 internal_error, not 401
C31_FailedRefreshHarmless ==
    [][\A w \in Workers :
          req'[w] # req[w] /\ ~(req'[w].pc = "done" /\ req'[w].resp.status = 200)
          => /\ revoked' = revoked
             /\ req'[w].pc = "done"
                => /\ req'[w].resp.access_token = NoToken
                   /\ req'[w].resp.refresh_token = NoToken
                   /\ req'[w].resp.expires_in = 0
                   /\ req'[w].resp.status \in {401, 500}
                   /\ req'[w].read_error
                      => /\ req'[w].resp.status = 500
                         /\ req'[w].resp.error = "internal_error"]_vars

\* a refresh of a token that is recorded as revoked has met a read error of
\* the store and been answered 500, the store holding what it held
C31_Witness ==
    \E w \in Workers :
       /\ req[w].pc = "done" /\ req[w].read_error /\ req[w].was_revoked
       /\ req[w].resp.status = 500
       /\ revoked # {}

\* C32: at the moment refresh(t) returns a pair, its refresh token is not t
\* and the hash of its refresh token is not in the Revocation Store
C32_RotatedTokenFresh ==
    [][\A w \in Workers :
          req[w].pc = "insert" /\ req'[w].pc = "done" /\ req'[w].resp.status = 200
          => /\ req'[w].resp.refresh_token # req[w].token
             /\ ~Recorded(revoked', req'[w].resp.refresh_token)]_vars

----------------------------------------------------------------------------
(* Properties of the Revocation Store's records *)

\* C33: the refresh token that a login returns is not recorded as revoked at
\* the moment it is returned: the revocations made until then, by logout or
\* by rotation, were of refresh tokens obtained from other calls
C33_RevocationIsolated ==
    [][http' # http /\ http'.op = "login" /\ http'.resp.status = 200
       => ~Recorded(revoked', http'.resp.refresh_token)]_vars

\* C34: for every refresh token delivered by the service whose hash is
\* recorded, the record's expires_at is not earlier than the token's exp, and
\* at no time after expires_at, when the record may be collected, does the
\* token pass validation
C34_RecordOutlivesToken ==
    \A r \in revoked, i \in issued :
       r.token_hash = sha256_hash(i.refresh)
       => /\ r.expires_at >= i.refresh.claims.exp
          /\ \A at \in (r.expires_at + 1)..(r.expires_at + DefaultLeeway + 1) :
                ~validate_refresh_token(i.refresh, get_jwt_secret, at).ok

\* C35: a refresh whose token names a subject that has no users row returns
\* no pair, and is answered 401 'User not found' when its reads were answered;
\* both tokens of a returned pair carry the e-mail address and name of the
\* subject's users row
C35_RefreshUsesStoredUser ==
    \A w \in Workers :
       /\ Returned(w)
          => \E u \in users :
                \A t \in {req[w].resp.access_token, req[w].resp.refresh_token} :
                   /\ t.claims.sub = u.id
                   /\ t.claims.email = u.email
                   /\ t.claims.name = u.name
       /\ req[w].pc = "done" /\ req[w].user_id # "" /\ ~req[w].read_error
          /\ (~\E u \in users : u.id = req[w].user_id)
          => /\ req[w].resp.status = 401 /\ req[w].resp.error = "unauthorized"
             /\ req[w].resp.message = "User not found"
             /\ req[w].resp.access_token = NoToken
             /\ req[w].resp.refresh_token = NoToken

\* a refresh with a token that holds the old e-mail address has returned a
\* pair that holds the new one
C35_Witness ==
    \E w \in Workers :
       /\ Returned(w)
       /\ req[w].token.claims.email = "ann@x.io"
       /\ req[w].resp.refresh_token.claims.email = "ann@y.io"
       /\ req[w].resp.access_token.claims.name = "Ann B"

----------------------------------------------------------------------------
(* Further properties of the permission resolver, under SpecPerm *)

\* the permissions that only SystemRole::SuperAdmin's set holds
SuperAdminOnly ==
    {"admin:manage_system", "admin:view_all_audit_logs", "team:manage_roles",
     "team:view_audit_log"}

\* C36: whatever role an identity's users row stores, has_permission allows
\* and get_user_permissions lists no permission outside SystemRole::Admin's
\* set; admin:manage_system, admin:view_all_audit_logs, team:manage_roles and
\* team:view_audit_log are outside it
C36_NoStoredSuperAdmin ==
    /\ SuperAdminOnly \cap permissions("Admin") = {}
    /\ perm.op = "has_permission" /\ perm.res.val
       => perm.permission \in permissions("Admin") \ SuperAdminOnly
    /\ perm.op = "get_user_permissions"
       => perm.res.set \subseteq permissions("Admin") \ SuperAdminOnly

\* an identity stored with the role string 'superadmin' is denied
\* admin:manage_system
C36_Witness ==
    /\ perm.op = "has_permission" /\ perm.down = {}
    /\ \E u \in PermUser : u.role = "superadmin"
    /\ perm.permission = "admin:manage_system"
    /\ perm.res = OkBool(FALSE)

\* C37: for every identity, team and permission, has_team_permission answers
\* true exactly when get_team_permissions on the same tables lists the
\* permission
C37_CheckAgreesWithListing ==
    perm.op = "has_team_permission" /\ perm.down = {}
    => LET listed == get_team_permissions(Pool({}), perm.user_id, perm.team_id)
       IN  perm.res.val <=> perm.permission \in listed.set

Owners(team_id) ==
    {m \in team_members : m.team_id = team_id /\ m.role = "owner"}

\* C38: after create_team has returned success for a team, the team has
\* exactly one member row with role owner, and it is the creator's, whatever
\* add_member, update_member_role, remove_member and leave_team calls follow
C38_SingleOwner ==
    \A id \in created :
        \E t \in teams :
            /\ t.id = id
            /\ Owners(id) = {[team_id |-> id, user_id |-> t.owner_id, role |-> "owner"]}

\* a created team that has gained an admin besides its owner
C38_Witness ==
    \E id \in created :
        \E m \in team_members : m.team_id = id /\ m.role = "admin"

====
